---------------------------- MODULE Spec2Model ----------------------------
(***************************************************************************)
(* Courier analytics: the reconciliation pipeline of src/src/App.tsx       *)
(* (App.handleDataLoaded, utils/dataProcessing) and the upload gate of     *)
(* src/src/components/FileUpload.tsx.                                      *)
(*                                                                         *)
(* Representation.                                                         *)
(*  - A JS string is a sequence of one-character strings, so that          *)
(*    concatenation, split and includes are computed.  The JS value        *)
(*    undefined, where a string is expected, is the one-element sequence   *)
(*    UNDEF, which is no character sequence.                               *)
(*  - A raw row is a function from the column names it has to cell values. *)
(*    Numeric columns (papaparse's transform of FileUpload.tsx:32-45)      *)
(*    hold integers, all other columns hold strings.                       *)
(*  - A weight is an integer count of 1/KG kilogram; money is an integer   *)
(*    count of rupees.  A quotient the code keeps as a float is kept as    *)
(*    the exact fraction [n, d] and compared by cross multiplication.      *)
(*    Rounding of IEEE doubles is not modelled.                            *)
(***************************************************************************)
EXTENDS Integers, Sequences, FiniteSets, TLC

-----------------------------------------------------------------------------
(* Numbers *)

\* weight units per kilogram: 1 unit = 0.25 g, so that value*450/360/1000 kg
\* (App.tsx:387) is a whole number of units for every whole product value
KG == 4000

Frac(n, d) == [n |-> n, d |-> d]
Zero == Frac(0, 1)
\* a < b for fractions with positive denominators
FracLT(a, b) == a.n * b.d < b.n * a.d
FracPos(a) == a.n > 0

-----------------------------------------------------------------------------
(* Strings *)

UNDEF == << "<undefined>" >>
\* `${x}` / String(x): undefined prints as the word
ToStr(s) == IF s = UNDEF THEN << "u","n","d","e","f","i","n","e","d" >> ELSE s

Digits == {"0","1","2","3","4","5","6","7","8","9"}
DigitVal(c) ==
  CASE c = "0" -> 0 [] c = "1" -> 1 [] c = "2" -> 2 [] c = "3" -> 3
    [] c = "4" -> 4 [] c = "5" -> 5 [] c = "6" -> 6 [] c = "7" -> 7
    [] c = "8" -> 8 [] c = "9" -> 9
AllDigits(s) == \A i \in 1..Len(s) : s[i] \in Digits
RECURSIVE NumVal(_)
NumVal(s) == IF s = << >> THEN 0
             ELSE 10 * NumVal(SubSeq(s, 1, Len(s) - 1)) + DigitVal(s[Len(s)])

Includes(s, c) == \E i \in 1..Len(s) : s[i] = c

\* String.prototype.split(sep) for a one-character separator
RECURSIVE SplitFrom(_, _, _, _)
SplitFrom(s, sep, i, cur) ==
  IF i > Len(s) THEN << cur >>
  ELSE IF s[i] = sep THEN << cur >> \o SplitFrom(s, sep, i + 1, << >>)
  ELSE SplitFrom(s, sep, i + 1, Append(cur, s[i]))
Split(s, sep) == SplitFrom(s, sep, 1, << >>)

RECURSIVE TrimLeft(_)
TrimLeft(s) == IF s # << >> /\ Head(s) = " " THEN TrimLeft(Tail(s)) ELSE s
RECURSIVE TrimRight(_)
TrimRight(s) == IF s # << >> /\ s[Len(s)] = " "
                THEN TrimRight(SubSeq(s, 1, Len(s) - 1)) ELSE s
Trim(s) == TrimRight(TrimLeft(s))

\* padStart(2, '0')
PadStart2(s) == IF Len(s) = 0 THEN << "0", "0" >>
                ELSE IF Len(s) = 1 THEN << "0" >> \o s ELSE s

-----------------------------------------------------------------------------
(* Dates.  A timestamp is                                                  *)
(*   [kind |-> "utc",   y, m, d]  midnight UTC of that day,                *)
(*   [kind |-> "local", y, m, d, t] what date-fns parseISO makes of a      *)
(*                                  date-time string: local time t,        *)
(*   [kind |-> "now",   y, m, d]  the clock when parseDate ran.            *)
(***************************************************************************)

IsLeap(y) == (y % 4 = 0 /\ y % 100 # 0) \/ y % 400 = 0
DaysIn(y, m) == IF m = 2 THEN (IF IsLeap(y) THEN 29 ELSE 28)
                ELSE IF m \in {4, 6, 9, 11} THEN 30 ELSE 31

Invalid == [kind |-> "invalid"]
\* new Date(): a time of day on the clock's calendar day
NowAt(now) == [kind |-> "now", y |-> now.y, m |-> now.m, d |-> now.d]

\* new Date(y + '-' + m + '-' + d + 'T00:00:00.000Z'): the ISO form needs a
\* 4-digit year, a 2-digit month and a 2-digit day.  A day up to 31 that the
\* month does not have is an Invalid Date in an engine that follows the
\* standard and the day carried into the next month in a lenient engine.
DateUTC(y, m, d, lenient) ==
  IF /\ Len(y) = 4 /\ AllDigits(y)
     /\ Len(m) = 2 /\ AllDigits(m) /\ NumVal(m) \in 1..12
     /\ Len(d) = 2 /\ AllDigits(d) /\ NumVal(d) \in 1..31
  THEN LET last == DaysIn(NumVal(y), NumVal(m))
       IN IF NumVal(d) <= last
          THEN [kind |-> "utc", y |-> NumVal(y), m |-> NumVal(m), d |-> NumVal(d)]
          ELSE IF ~lenient THEN Invalid
          ELSE [kind |-> "utc",
                y |-> IF NumVal(m) = 12 THEN NumVal(y) + 1 ELSE NumVal(y),
                m |-> IF NumVal(m) = 12 THEN 1 ELSE NumVal(m) + 1,
                d |-> NumVal(d) - last]
  ELSE Invalid

\* /^\d{4}-\d{2}-\d{2}$/
MatchesIsoDate(s) ==
  /\ Len(s) = 10
  /\ s[5] = "-" /\ s[8] = "-"
  /\ \A i \in {1, 2, 3, 4, 6, 7, 9, 10} : s[i] \in Digits

months(monthStr) ==
  CASE monthStr = << "J","a","n" >> -> << "0","1" >>
    [] monthStr = << "F","e","b" >> -> << "0","2" >>
    [] monthStr = << "M","a","r" >> -> << "0","3" >>
    [] monthStr = << "A","p","r" >> -> << "0","4" >>
    [] monthStr = << "M","a","y" >> -> << "0","5" >>
    [] monthStr = << "J","u","n" >> -> << "0","6" >>
    [] monthStr = << "J","u","l" >> -> << "0","7" >>
    [] monthStr = << "A","u","g" >> -> << "0","8" >>
    [] monthStr = << "S","e","p" >> -> << "0","9" >>
    [] monthStr = << "O","c","t" >> -> << "1","0" >>
    [] monthStr = << "N","o","v" >> -> << "1","1" >>
    [] monthStr = << "D","e","c" >> -> << "1","2" >>
    [] OTHER -> UNDEF

\* date-fns parseISO on a string none of the three formats took: a calendar
\* date, alone or followed by T and a time of day, is a local time; anything
\* else is an Invalid Date
parseISO(s) ==
  IF Len(s) >= 10 /\ MatchesIsoDate(SubSeq(s, 1, 10))
     /\ (Len(s) = 10 \/ (s[11] = "T" /\ Len(s) = 16 /\ s[14] = ":"
                          /\ \A i \in {12, 13, 15, 16} : s[i] \in Digits))
  THEN LET dt == DateUTC(SubSeq(s, 1, 4), SubSeq(s, 6, 7), SubSeq(s, 9, 10), FALSE)
       IN IF dt = Invalid THEN Invalid
          ELSE [kind |-> "local", y |-> dt.y, m |-> dt.m, d |-> dt.d,
                t |-> SubSeq(s, 11, Len(s))]
  ELSE Invalid

\* the ISO branch, App.tsx:166-173
ParseIsoBranch(dateStr, lenient) ==
  IF MatchesIsoDate(dateStr)
  THEN DateUTC(SubSeq(dateStr, 1, 4), SubSeq(dateStr, 6, 7), SubSeq(dateStr, 9, 10),
               lenient)
  ELSE Invalid

\* the DD-MM-YYYY HH:MM branch, App.tsx:176-194
ParseDelhiveryBranch(dateStr, lenient) ==
  IF Includes(dateStr, " ") /\ Includes(dateStr, "-")
     /\ Len(Split(dateStr, "-")) = 3
  THEN LET datePart == Split(dateStr, " ")[1]
           parts == Split(datePart, "-")
       IN IF Len(parts) = 3
          THEN DateUTC(parts[3], PadStart2(parts[2]), PadStart2(parts[1]), lenient)
          ELSE Invalid
  ELSE Invalid

\* ParseBlueDartBranch with 2-digit years read as 19YY
ParseBlueDartBranchLastCentury(dateStr, lenient) ==
  IF Includes(dateStr, "-") /\ ~Includes(dateStr, " ")
  THEN LET parts == Split(dateStr, "-")
       IN IF Len(parts) = 3
          THEN LET day == PadStart2(Trim(parts[1]))
                   month == months(Trim(parts[2]))
                   year == Trim(parts[3])
                   fullYear == IF Len(year) = 2 THEN << "1", "9" >> \o year ELSE year
               IN IF month # UNDEF THEN DateUTC(fullYear, month, day, lenient)
                  ELSE Invalid
          ELSE Invalid
  ELSE Invalid

\* the DD-MMM-YY branch, App.tsx:197-239
ParseBlueDartBranch(dateStr, lenient) ==
  IF Includes(dateStr, "-") /\ ~Includes(dateStr, " ")
  THEN LET parts == Split(dateStr, "-")
       IN IF Len(parts) = 3
          THEN LET day == PadStart2(Trim(parts[1]))
                   month == months(Trim(parts[2]))
                   year == Trim(parts[3])
                   fullYear == IF Len(year) = 2 THEN << "2", "0" >> \o year ELSE year
               IN IF month # UNDEF THEN DateUTC(fullYear, month, day, lenient)
                  ELSE Invalid
          ELSE Invalid
  ELSE Invalid

\* parseDate handing on whatever parseISO returns
parseDateUnchecked(dateStr, now) ==
  IF dateStr = UNDEF \/ dateStr = << >> \/ Trim(dateStr) = << >> THEN NowAt(now)
  ELSE IF ParseIsoBranch(dateStr, now.lenient) # Invalid
  THEN ParseIsoBranch(dateStr, now.lenient)
  ELSE IF ParseDelhiveryBranch(dateStr, now.lenient) # Invalid
  THEN ParseDelhiveryBranch(dateStr, now.lenient)
  ELSE IF ParseBlueDartBranch(dateStr, now.lenient) # Invalid
  THEN ParseBlueDartBranch(dateStr, now.lenient)
  ELSE parseISO(dateStr)

\* parseDate(dateStr) in the runtime `now`: its clock's calendar day and
\* whether its Date parser is lenient
parseDate(dateStr, now) ==
  IF dateStr = UNDEF \/ dateStr = << >> \/ Trim(dateStr) = << >> THEN NowAt(now)
  ELSE IF ParseIsoBranch(dateStr, now.lenient) # Invalid
  THEN ParseIsoBranch(dateStr, now.lenient)
  ELSE IF ParseDelhiveryBranch(dateStr, now.lenient) # Invalid
  THEN ParseDelhiveryBranch(dateStr, now.lenient)
  ELSE IF ParseBlueDartBranch(dateStr, now.lenient) # Invalid
  THEN ParseBlueDartBranch(dateStr, now.lenient)
  ELSE IF parseISO(dateStr) = Invalid THEN NowAt(now)
  ELSE parseISO(dateStr)

-----------------------------------------------------------------------------
(* Raw rows *)

CellStr(row, col) == IF col \in DOMAIN row THEN row[col] ELSE UNDEF
\* a string cell is falsy when it is undefined or empty
Truthy(s) == s # UNDEF /\ s # << >>
\* a || b on strings
Or(a, b) == IF Truthy(a) THEN a ELSE b
\* A cell of a numeric column holds a number, or text when the caller passes
\* a row that did not go through parseCSV's transform; the text cells of the
\* numeric columns of a row are kept in its `typeof_string` table, by column.
TextCells(row) ==
  IF "typeof_string" \in DOMAIN row THEN row["typeof_string"] ELSE [c \in {} |-> << >>]
\* numbers of weight columns are counts of 1/KG kg
Unit(col) == IF col \in {"ACT_WT", "CHRG_WT", "charged_weight"} THEN KG ELSE 1
\* parseFloat of a text: the value of its leading digits, -1 standing for NaN
parseFloat(text) ==
  IF text = << >> \/ Head(text) \notin Digits THEN -1
  ELSE NumVal(SubSeq(text, 1,
                     CHOOSE k \in 1..Len(text) :
                       /\ \A i \in 1..k : text[i] \in Digits
                       /\ (k = Len(text) \/ text[k + 1] \notin Digits)))

\* CellNum with a missing or unparseable cell read as 1 instead of 0
CellNumOne(row, col) ==
  IF col \in DOMAIN row THEN row[col]
  ELSE IF col \in DOMAIN TextCells(row) /\ parseFloat(TextCells(row)[col]) > 0
  THEN parseFloat(TextCells(row)[col]) * Unit(col)
  ELSE 1

\* parseFloat(String(row.col || '0')) || 0: the number, the value of the
\* leading digits of a text cell, 0 when the cell is missing or has none
CellNum(row, col) ==
  IF col \in DOMAIN row THEN row[col]
  ELSE IF col \in DOMAIN TextCells(row) /\ parseFloat(TextCells(row)[col]) > 0
  THEN parseFloat(TextCells(row)[col]) * Unit(col)
  ELSE 0

\* parseInt(String(s)): the value of the leading digits, -1 standing for NaN
RECURSIVE DigitPrefix(_)
DigitPrefix(s) == IF s # << >> /\ Head(s) \in Digits
                  THEN << Head(s) >> \o DigitPrefix(Tail(s)) ELSE << >>
parseInt(s) == IF s = UNDEF \/ DigitPrefix(s) = << >> THEN -1
               ELSE NumVal(DigitPrefix(s))

-----------------------------------------------------------------------------
(* Leaf functions of utils/dataProcessing *)

RECURSIVE SumSeq(_)
SumSeq(ws) == IF ws = << >> THEN 0 ELSE Head(ws) + SumSeq(Tail(ws))

\* detectWeightUnit with the limits 50 and 2000 counted as grams
detectWeightUnitInclusive(weights) ==
  LET validWeights == SelectSeq(weights, LAMBDA w : w > 0)
      total == SumSeq(validWeights)
      cnt == Len(validWeights)
  IN IF cnt = 0 THEN "kg"
     ELSE IF total >= 50 * KG * cnt /\ total <= 2000 * KG * cnt THEN "g" ELSE "kg"

\* detectWeightUnit(weights): avg > 50 && avg < 2000, the average taken over
\* the positive samples (numbers are counts of 1/KG)
detectWeightUnit(weights) ==
  LET validWeights == SelectSeq(weights, LAMBDA w : w > 0)
      total == SumSeq(validWeights)
      cnt == Len(validWeights)
  IN IF cnt = 0 THEN "kg"
     ELSE IF total > 50 * KG * cnt /\ total < 2000 * KG * cnt THEN "g" ELSE "kg"

getValueBucket(value) ==
  IF value <= 500 THEN "<=500"
  ELSE IF value <= 1000 THEN "501-1000"
  ELSE IF value <= 2000 THEN "1001-2000"
  ELSE ">2000"

s_South == << "S","o","u","t","h" >>
s_North == << "N","o","r","t","h" >>
s_West == << "W","e","s","t" >>
s_East == << "E","a","s","t" >>
s_Unknown == << "U","n","k","n","o","w","n" >>
s_Standard == << "S","t","a","n","d","a","r","d" >>
s_Delivered == << "D","e","l","i","v","e","r","e","d" >>

zoneMapping(prefix) ==
  CASE prefix \in {<< "M","A","A" >>, << "B","L","R" >>, << "T","J","V" >>,
                   << "N","A","M" >>, << "C","J","B" >>} -> s_South
    [] prefix = << "D","E","L" >> -> s_North
    [] prefix = << "M","U","M" >> -> s_West
    [] prefix = << "K","O","L" >> -> s_East
    [] OTHER -> UNDEF

deriveZoneFromDestination(destination) ==
  LET prefix == Split(destination, "-")[1]
  IN Or(zoneMapping(prefix), s_Unknown)

-----------------------------------------------------------------------------
(* normalizeBlueDart (App.tsx:281-363) *)

\* BlueDartDerived with the overbilling tolerance 1 kg instead of 0.1 kg
BlueDartDerivedWideTolerance(actualWeight, chargedWeight, lineAmount, productValue) ==
  LET weightDiff == chargedWeight - actualWeight
      weightDiffPercent == IF actualWeight > 0 THEN Frac(weightDiff * 100, actualWeight)
                           ELSE Zero
      perKgRate == IF chargedWeight > 0 THEN Frac(lineAmount, chargedWeight) ELSE Zero
  IN [ weight_diff_kg |-> weightDiff,
       weight_diff_percent |-> weightDiffPercent,
       is_overbilled |-> weightDiff > KG,
       is_underbilled |-> weightDiff < -KG,
       per_kg_rate |-> perKgRate,
       value_bucket |-> getValueBucket(productValue),
       flag_high_uplift |-> chargedWeight >= actualWeight + KG \div 2,
       flag_roundup_jump |-> actualWeight < KG /\ chargedWeight >= (3 * KG) \div 2,
       flag_value_weight_mismatch |-> productValue >= 1000 /\ actualWeight < KG \div 2,
       flag_charge_outlier |-> FALSE,
       flag_missing_actual |-> actualWeight = 0,
       flag_miscalculated |-> FALSE ]

\* the derived fields and flags of a Carrier-A record (App.tsx:317-350)
BlueDartDerived(actualWeight, chargedWeight, lineAmount, productValue) ==
  LET weightDiff == chargedWeight - actualWeight
      weightDiffPercent == IF actualWeight > 0 THEN Frac(weightDiff * 100, actualWeight)
                           ELSE Zero
      perKgRate == IF chargedWeight > 0 THEN Frac(lineAmount, chargedWeight) ELSE Zero
  IN [ weight_diff_kg |-> weightDiff,
       weight_diff_percent |-> weightDiffPercent,
       is_overbilled |-> weightDiff > KG \div 10,
       is_underbilled |-> weightDiff < -(KG \div 10),
       per_kg_rate |-> perKgRate,
       value_bucket |-> getValueBucket(productValue),
       flag_high_uplift |-> chargedWeight >= actualWeight + KG \div 2,
       flag_roundup_jump |-> actualWeight < KG /\ chargedWeight >= (3 * KG) \div 2,
       flag_value_weight_mismatch |-> productValue >= 1000 /\ actualWeight < KG \div 2,
       flag_charge_outlier |-> FALSE,
       flag_missing_actual |-> actualWeight = 0,
       flag_miscalculated |-> FALSE ]

\* BlueDartRecord with a missing charged weight always defaulting to 0.5 kg
BlueDartRecordFloor(row, now) ==
  LET actualWeight == CellNum(row, "ACT_WT")
      chargedWeight == IF CellNum(row, "CHRG_WT") # 0 THEN CellNum(row, "CHRG_WT")
                       ELSE KG \div 2
      awbNumber == ToStr(Or(CellStr(row, "AWB_NO"), Or(CellStr(row, "AWB"), << >>)))
      pickupDate == ToStr(Or(CellStr(row, "PICKUP_DT"), << >>))
      lineAmount == CellNum(row, "AMOUNT")
      productValue == CellNum(row, "VALUE")
      pieces == IF CellNum(row, "PCS") # 0 THEN CellNum(row, "PCS") ELSE 1
      origin == ToStr(Or(CellStr(row, "ORIGIN"), << >>))
      destination == ToStr(Or(CellStr(row, "DESTINATION"), << >>))
      pinCode == ToStr(Or(CellStr(row, "PIN CODE"), Or(CellStr(row, "PIN_CODE"), << >>)))
      service == ToStr(Or(CellStr(row, "SVC"), s_Standard))
  IN [ originalData |-> row,
       carrier |-> "BlueDart",
       awb |-> awbNumber,
       pickup_date |-> parseDate(pickupDate, now),
       origin |-> origin,
       destination |-> destination,
       pin |-> pinCode,
       actual_weight_kg |-> actualWeight,
       charged_weight_kg |-> chargedWeight,
       line_amount |-> lineAmount,
       product_value |-> productValue,
       pieces |-> pieces,
       service |-> service,
       zone |-> deriveZoneFromDestination(destination),
       status |-> s_Delivered ]
     @@ BlueDartDerived(actualWeight, chargedWeight, lineAmount, productValue)

\* one row (App.tsx:292-362)
BlueDartRecord(row, now) ==
  LET actualWeight == CellNum(row, "ACT_WT")
      chargedWeight == IF CellNum(row, "CHRG_WT") # 0 THEN CellNum(row, "CHRG_WT")
                       ELSE IF actualWeight > 0 THEN actualWeight ELSE KG \div 2
      awbNumber == ToStr(Or(CellStr(row, "AWB_NO"), Or(CellStr(row, "AWB"), << >>)))
      pickupDate == ToStr(Or(CellStr(row, "PICKUP_DT"), << >>))
      lineAmount == CellNum(row, "AMOUNT")
      productValue == CellNum(row, "VALUE")
      pieces == IF CellNum(row, "PCS") # 0 THEN CellNum(row, "PCS") ELSE 1
      origin == ToStr(Or(CellStr(row, "ORIGIN"), << >>))
      destination == ToStr(Or(CellStr(row, "DESTINATION"), << >>))
      pinCode == ToStr(Or(CellStr(row, "PIN CODE"), Or(CellStr(row, "PIN_CODE"), << >>)))
      service == ToStr(Or(CellStr(row, "SVC"), s_Standard))
  IN [ originalData |-> row,
       carrier |-> "BlueDart",
       awb |-> awbNumber,
       pickup_date |-> parseDate(pickupDate, now),
       origin |-> origin,
       destination |-> destination,
       pin |-> pinCode,
       actual_weight_kg |-> actualWeight,
       charged_weight_kg |-> chargedWeight,
       line_amount |-> lineAmount,
       product_value |-> productValue,
       pieces |-> pieces,
       service |-> service,
       zone |-> deriveZoneFromDestination(destination),
       status |-> s_Delivered ]
     @@ BlueDartDerived(actualWeight, chargedWeight, lineAmount, productValue)

normalizeBlueDart(data, now) ==
  [i \in 1..Len(data) |-> BlueDartRecord(data[i], now)]

-----------------------------------------------------------------------------
(* normalizeDelhivery (App.tsx:365-444) *)

\* DelhiveryDerived with the uplift test written > instead of >=
DelhiveryDerivedStrictUplift(actualWeight, chargedWeight, lineAmount, productValue) ==
  LET weightDiff == chargedWeight - actualWeight
      weightDiffPercent == IF actualWeight > 0 THEN Frac(weightDiff * 100, actualWeight)
                           ELSE Zero
      perKgRate == IF chargedWeight > 0 THEN Frac(lineAmount, chargedWeight) ELSE Zero
  IN [ weight_diff_kg |-> weightDiff,
       weight_diff_percent |-> weightDiffPercent,
       is_overbilled |-> weightDiff > KG \div 10,
       is_underbilled |-> weightDiff < -(KG \div 10),
       per_kg_rate |-> perKgRate,
       value_bucket |-> getValueBucket(productValue),
       flag_high_uplift |-> chargedWeight > actualWeight + KG \div 2,
       flag_roundup_jump |-> actualWeight < KG /\ chargedWeight >= (3 * KG) \div 2,
       flag_value_weight_mismatch |-> productValue >= 1000 /\ actualWeight < KG \div 2,
       flag_charge_outlier |-> FALSE,
       flag_missing_actual |-> actualWeight = 0,
       flag_miscalculated |-> FALSE ]

\* the derived fields and flags of a Carrier-B record (App.tsx:398-431)
DelhiveryDerived(actualWeight, chargedWeight, lineAmount, productValue) ==
  LET weightDiff == chargedWeight - actualWeight
      weightDiffPercent == IF actualWeight > 0 THEN Frac(weightDiff * 100, actualWeight)
                           ELSE Zero
      perKgRate == IF chargedWeight > 0 THEN Frac(lineAmount, chargedWeight) ELSE Zero
  IN [ weight_diff_kg |-> weightDiff,
       weight_diff_percent |-> weightDiffPercent,
       is_overbilled |-> weightDiff > KG \div 10,
       is_underbilled |-> weightDiff < -(KG \div 10),
       per_kg_rate |-> perKgRate,
       value_bucket |-> getValueBucket(productValue),
       flag_high_uplift |-> chargedWeight >= actualWeight + KG \div 2,
       flag_roundup_jump |-> actualWeight < KG /\ chargedWeight >= (3 * KG) \div 2,
       flag_value_weight_mismatch |-> productValue >= 1000 /\ actualWeight < KG \div 2,
       flag_charge_outlier |-> FALSE,
       flag_missing_actual |-> actualWeight = 0,
       flag_miscalculated |-> FALSE ]

\* DelhiveryRecord with the actual weight taken from any product value,
\* positive or not
DelhiveryRecordAnyValue(row, isChargedInGrams, now) ==
  LET productValue == CellNum(row, "product_value")
      actualWeight == (productValue * 450 * (KG \div 1000)) \div 360
      chargedWeight == IF isChargedInGrams THEN CellNum(row, "charged_weight") \div 1000
                       ELSE CellNum(row, "charged_weight")
      lineAmount == CellNum(row, "total_amount")
      pieces == IF parseInt(Or(CellStr(row, "item_shipped"), << "1" >>)) \in {-1, 0}
                THEN 1
                ELSE parseInt(Or(CellStr(row, "item_shipped"), << "1" >>))
  IN [ originalData |-> row,
       carrier |-> "Delhivery",
       awb |-> CellStr(row, "waybill_num"),
       pickup_date |-> parseDate(CellStr(row, "pickup_date"), now),
       origin |-> CellStr(row, "origin_center"),
       destination |-> CellStr(row, "destination_pin"),
       pin |-> CellStr(row, "destination_pin"),
       actual_weight_kg |-> actualWeight,
       charged_weight_kg |-> chargedWeight,
       line_amount |-> lineAmount,
       product_value |-> productValue,
       pieces |-> pieces,
       service |-> CellStr(row, "package_type"),
       zone |-> Or(CellStr(row, "zone"), s_Unknown),
       status |-> CellStr(row, "status") ]
     @@ DelhiveryDerived(actualWeight, chargedWeight, lineAmount, productValue)

\* one row (App.tsx:384-443)
DelhiveryRecord(row, isChargedInGrams, now) ==
  LET productValue == CellNum(row, "product_value")
      actualWeight == IF productValue > 0
                      THEN (productValue * 450 * (KG \div 1000)) \div 360
                      ELSE 0
      chargedWeight == IF isChargedInGrams THEN CellNum(row, "charged_weight") \div 1000
                       ELSE CellNum(row, "charged_weight")
      lineAmount == CellNum(row, "total_amount")
      pieces == IF parseInt(Or(CellStr(row, "item_shipped"), << "1" >>)) \in {-1, 0}
                THEN 1
                ELSE parseInt(Or(CellStr(row, "item_shipped"), << "1" >>))
  IN [ originalData |-> row,
       carrier |-> "Delhivery",
       awb |-> CellStr(row, "waybill_num"),
       pickup_date |-> parseDate(CellStr(row, "pickup_date"), now),
       origin |-> CellStr(row, "origin_center"),
       destination |-> CellStr(row, "destination_pin"),
       pin |-> CellStr(row, "destination_pin"),
       actual_weight_kg |-> actualWeight,
       charged_weight_kg |-> chargedWeight,
       line_amount |-> lineAmount,
       product_value |-> productValue,
       pieces |-> pieces,
       service |-> CellStr(row, "package_type"),
       zone |-> Or(CellStr(row, "zone"), s_Unknown),
       status |-> CellStr(row, "status") ]
     @@ DelhiveryDerived(actualWeight, chargedWeight, lineAmount, productValue)

\* normalizeDelhivery with the unit detected from each row's own charged weight
normalizeDelhiveryPerRow(data, now) ==
  [i \in 1..Len(data) |->
     DelhiveryRecord(data[i],
                     detectWeightUnit(SelectSeq(<< CellNum(data[i], "charged_weight") >>,
                                                LAMBDA w : w > 0)) = "g",
                     now)]

normalizeDelhivery(data, now) ==
  LET chargedWeights == SelectSeq([i \in 1..Len(data) |-> CellNum(data[i], "charged_weight")],
                                  LAMBDA w : w > 0)
      isChargedInGrams == detectWeightUnit(chargedWeights) = "g"
  IN [i \in 1..Len(data) |-> DelhiveryRecord(data[i], isChargedInGrams, now)]

-----------------------------------------------------------------------------
(* calculateOutliers (App.tsx:446-480) *)

\* a group needs this many positive rates (App.tsx:463)
MinSample == 5
\* the percentiles of App.tsx:465-466
LowPct == 5
HighPct == 95

CarrierChars(c) == IF c = "BlueDart" THEN << "B","l","u","e","D","a","r","t" >>
                   ELSE << "D","e","l","h","i","v","e","r","y" >>

\* the group key without the carrier
GroupKeyNoCarrier(shipment) == ToStr(shipment.zone) \o << "_" >> \o ToStr(shipment.service)

\* `${shipment.carrier}_${shipment.zone}_${shipment.service}`
GroupKey(shipment) ==
  CarrierChars(shipment.carrier) \o << "_" >> \o ToStr(shipment.zone)
     \o << "_" >> \o ToStr(shipment.service)

\* Array.prototype.sort((a, b) => a - b)
RECURSIVE InsertRate(_, _)
InsertRate(r, sorted) ==
  IF sorted = << >> THEN << r >>
  ELSE IF FracLT(r, Head(sorted)) THEN << r >> \o sorted
  ELSE << Head(sorted) >> \o InsertRate(r, Tail(sorted))
RECURSIVE SortRates(_)
SortRates(rs) == IF rs = << >> THEN << >> ELSE InsertRate(Head(rs), SortRates(Tail(rs)))

\* group.map(s => s.per_kg_rate).filter(r => r > 0).sort(...) of the group of `key`
GroupRates(shipments, key) ==
  LET group == SelectSeq(shipments, LAMBDA s : GroupKey(s) = key)
      rates == [i \in 1..Len(group) |-> group[i].per_kg_rate]
  IN SortRates(SelectSeq(rates, FracPos))

\* rates[Math.floor(rates.length * pct / 100)], 0-based in the code
Percentile(rates, pct) == rates[((Len(rates) * pct) \div 100) + 1]

\* FlagShipment with the two assignments in the other order: flag_miscalculated
\* reads flag_charge_outlier before it is set
FlagShipmentStale(shipment, p5, p95) ==
  LET outlier == FracLT(shipment.per_kg_rate, p5) \/ FracLT(p95, shipment.per_kg_rate)
  IN [shipment EXCEPT
        !.flag_charge_outlier = outlier,
        !.flag_miscalculated = shipment.is_overbilled \/ shipment.flag_roundup_jump
                               \/ shipment.flag_charge_outlier]

\* FlagShipment that also writes the union back into is_overbilled
FlagShipmentMarksOverbilled(shipment, p5, p95) ==
  LET outlier == FracLT(shipment.per_kg_rate, p5) \/ FracLT(p95, shipment.per_kg_rate)
  IN [shipment EXCEPT
        !.flag_charge_outlier = outlier,
        !.flag_miscalculated = shipment.is_overbilled \/ shipment.flag_roundup_jump
                               \/ outlier,
        !.is_overbilled = shipment.is_overbilled \/ shipment.flag_roundup_jump
                          \/ outlier]

\* FlagShipment with the percentile comparisons written <= and >=
FlagShipmentInclusive(shipment, p5, p95) ==
  LET outlier == ~FracLT(p5, shipment.per_kg_rate) \/ ~FracLT(shipment.per_kg_rate, p95)
  IN [shipment EXCEPT
        !.flag_charge_outlier = outlier,
        !.flag_miscalculated = shipment.is_overbilled \/ shipment.flag_roundup_jump
                               \/ outlier]

\* the body of group.forEach (App.tsx:468-473)
FlagShipment(shipment, p5, p95) ==
  LET outlier == FracLT(shipment.per_kg_rate, p5) \/ FracLT(p95, shipment.per_kg_rate)
  IN [shipment EXCEPT
        !.flag_charge_outlier = outlier,
        !.flag_miscalculated = shipment.is_overbilled \/ shipment.flag_roundup_jump
                               \/ outlier]

\* whether the group's forEach body returns early (App.tsx:463)
GroupSkipped(rates) == Len(rates) < MinSample

calculateOutliers(shipments) ==
  LET keys == {GroupKey(shipments[i]) : i \in 1..Len(shipments)}
      rates == [k \in keys |-> GroupRates(shipments, k)]
  IN [i \in 1..Len(shipments) |->
        LET r == rates[GroupKey(shipments[i])]
        IN IF GroupSkipped(r) THEN shipments[i]
           ELSE FlagShipment(shipments[i], Percentile(r, LowPct), Percentile(r, HighPct))]

-----------------------------------------------------------------------------
(* calculateKPIs (App.tsx:482-568) *)

\* slice(0, 10)
TopPins == 10

RECURSIVE SumField(_, _)
SumField(ss, f) == IF ss = << >> THEN 0 ELSE Head(ss)[f] + SumField(Tail(ss), f)

\* the keys of an object built by inserting keys[1], keys[2], ... in turn,
\* in insertion order without repeats
RECURSIVE InsertionOrder(_, _)
InsertionOrder(keys, seen) ==
  IF keys = << >> THEN << >>
  ELSE IF Head(keys) \in seen THEN InsertionOrder(Tail(keys), seen)
  ELSE << Head(keys) >> \o InsertionOrder(Tail(keys), seen \cup {Head(keys)})

\* a property key that is a canonical array index ("0", "42", "600045"; not
\* "007", not "6e5"): keys of up to 9 digits, which covers postal codes
IsIndexKey(k) == /\ Len(k) \in 1..9
                 /\ AllDigits(k)
                 /\ (Len(k) = 1 \/ k[1] # "0")

RECURSIVE InsertIndexKey(_, _)
InsertIndexKey(k, sorted) ==
  IF sorted = << >> THEN << k >>
  ELSE IF NumVal(k) < NumVal(Head(sorted)) THEN << k >> \o sorted
  ELSE << Head(sorted) >> \o InsertIndexKey(k, Tail(sorted))
RECURSIVE SortIndexKeys(_)
SortIndexKeys(ks) ==
  IF ks = << >> THEN << >> ELSE InsertIndexKey(Head(ks), SortIndexKeys(Tail(ks)))

\* the property names every object literal inherits from Object.prototype:
\* acc[k] is truthy for them, so `if (!acc[k]) acc[k] = ...` never makes them
\* own keys and Object.entries never lists them
ObjectPrototypeKeys ==
  { << "c","o","n","s","t","r","u","c","t","o","r" >>,
    << "t","o","S","t","r","i","n","g" >>,
    << "t","o","L","o","c","a","l","e","S","t","r","i","n","g" >>,
    << "v","a","l","u","e","O","f" >>,
    << "h","a","s","O","w","n","P","r","o","p","e","r","t","y" >>,
    << "i","s","P","r","o","t","o","t","y","p","e","O","f" >>,
    << "p","r","o","p","e","r","t","y","I","s","E","n","u","m","e","r","a","b","l","e" >>,
    << "_","_","p","r","o","t","o","_","_" >>,
    << "_","_","d","e","f","i","n","e","G","e","t","t","e","r","_","_" >>,
    << "_","_","d","e","f","i","n","e","S","e","t","t","e","r","_","_" >>,
    << "_","_","l","o","o","k","u","p","G","e","t","t","e","r","_","_" >>,
    << "_","_","l","o","o","k","u","p","S","e","t","t","e","r","_","_" >> }

\* the key order of Object.entries / Object.values: index keys ascending,
\* then the other keys in insertion order
ObjectKeys(keys) ==
  LET own == InsertionOrder(keys, ObjectPrototypeKeys)
  IN SortIndexKeys(SelectSeq(own, IsIndexKey))
       \o SelectSeq(own, LAMBDA k : ~IsIndexKey(k))

\* Array.prototype.sort((a, b) => b.count - a.count): stable, descending count
RECURSIVE InsertByCount(_, _)
InsertByCount(e, sorted) ==
  IF sorted = << >> THEN << e >>
  ELSE IF Head(sorted).count < e.count THEN << e >> \o sorted
  ELSE << Head(sorted) >> \o InsertByCount(e, Tail(sorted))
RECURSIVE SortByCount(_)
SortByCount(es) ==
  IF es = << >> THEN << >>
  ELSE InsertByCount(es[Len(es)], SortByCount(SubSeq(es, 1, Len(es) - 1)))

\* pinGroups and topProblematicPins (App.tsx:537-547)
topProblematicPins(overbilled) ==
  LET pins == [i \in 1..Len(overbilled) |-> ToStr(overbilled[i].pin)]
      order == ObjectKeys(pins)
      entry(k) == LET members == SelectSeq(overbilled, LAMBDA s : ToStr(s.pin) = k)
                  IN [pin |-> k, count |-> Len(members),
                      totalValue |-> SumField(members, "line_amount")]
      sorted == SortByCount([i \in 1..Len(order) |-> entry(order[i])])
  IN SubSeq(sorted, 1, IF Len(sorted) < TopPins THEN Len(sorted) ELSE TopPins)

\* the key a shipment is grouped by: its carrier or its zone (App.tsx:512, 525)
KeyOf(s, field) == IF field = "zone" THEN ToStr(s.zone) ELSE s[field]

\* overbillingRateByCarrier / overbillingRateByZone (App.tsx:511-534)
RateBy(shipments, field) ==
  LET keys == IF field = "zone"
              THEN {KeyOf(shipments[i], field) : i \in 1..Len(shipments)}
                     \ ObjectPrototypeKeys
              ELSE {KeyOf(shipments[i], field) : i \in 1..Len(shipments)}
  IN [k \in keys |->
        LET members == SelectSeq(shipments, LAMBDA s : KeyOf(s, field) = k)
        IN Frac(Len(SelectSeq(members, LAMBDA s : s.is_overbilled)) * 100, Len(members))]

EmptyMap == [k \in {} |-> Zero]

\* calculateKPIs without the empty-list return and without the guard on the
\* number of shipments that have both weights
calculateKPIsUnguarded(shipments) ==
  LET overbilled == SelectSeq(shipments, LAMBDA s : s.is_overbilled)
      validWeights == SelectSeq(shipments,
                        LAMBDA s : s.actual_weight_kg > 0 /\ s.charged_weight_kg > 0)
  IN [ totalShipments |-> Len(shipments),
       totalAmount |-> SumField(shipments, "line_amount"),
       suspectedOverbillingCount |-> Len(overbilled),
       suspectedOverbillingValue |-> SumField(overbilled, "line_amount"),
       avgActualWeight |->
         Frac(SumField(validWeights, "actual_weight_kg"), Len(validWeights)),
       avgChargedWeight |->
         Frac(SumField(validWeights, "charged_weight_kg"), Len(validWeights)),
       overbillingRateByCarrier |-> RateBy(shipments, "carrier"),
       overbillingRateByZone |-> RateBy(shipments, "zone"),
       topProblematicPins |-> topProblematicPins(overbilled) ]

\* calculateKPIs (App.tsx:482-568)
calculateKPIs(shipments) ==
  IF Len(shipments) = 0
  THEN [ totalShipments |-> 0, totalAmount |-> 0,
         suspectedOverbillingCount |-> 0, suspectedOverbillingValue |-> 0,
         avgActualWeight |-> Zero, avgChargedWeight |-> Zero,
         overbillingRateByCarrier |-> EmptyMap, overbillingRateByZone |-> EmptyMap,
         topProblematicPins |-> << >> ]
  ELSE
    LET overbilled == SelectSeq(shipments, LAMBDA s : s.is_overbilled)
        validWeights == SelectSeq(shipments,
                          LAMBDA s : s.actual_weight_kg > 0 /\ s.charged_weight_kg > 0)
    IN [ totalShipments |-> Len(shipments),
         totalAmount |-> SumField(shipments, "line_amount"),
         suspectedOverbillingCount |-> Len(overbilled),
         suspectedOverbillingValue |-> SumField(overbilled, "line_amount"),
         avgActualWeight |->
           IF Len(validWeights) > 0
           THEN Frac(SumField(validWeights, "actual_weight_kg"), Len(validWeights))
           ELSE Zero,
         avgChargedWeight |->
           IF Len(validWeights) > 0
           THEN Frac(SumField(validWeights, "charged_weight_kg"), Len(validWeights))
           ELSE Zero,
         overbillingRateByCarrier |-> RateBy(shipments, "carrier"),
         overbillingRateByZone |-> RateBy(shipments, "zone"),
         topProblematicPins |-> topProblematicPins(overbilled) ]

-----------------------------------------------------------------------------
(* applyFilters with the Dashboard's filters (Dashboard.tsx:22-36) *)

\* yyyymmdd of a timestamp's calendar day
DayKey(t) == t.y * 10000 + t.m * 100 + t.d

\* new Date('2025-01-01') and new Date('2025-12-31'): midnight UTC.  A "utc"
\* timestamp is inside the range on both boundary days; a "now" or "local"
\* timestamp is a time of day after midnight, so it is past the range on its
\* last day (the uploads below keep such timestamps off the boundary days,
\* where the time zone would decide)
InDateRange(t, start, end) ==
  IF t.kind = "utc" THEN start <= DayKey(t) /\ DayKey(t) <= end
  ELSE start <= DayKey(t) /\ DayKey(t) < end

RangeOf(q) == {q[i] : i \in 1..Len(q)}

\* String.prototype.includes(needle)
Contains(hay, needle) ==
  \E i \in 0..(Len(hay) - Len(needle)) : SubSeq(hay, i + 1, i + Len(needle)) = needle

filters ==
  [ dateStart |-> 20250101, dateEnd |-> 20251231,
    carriers |-> << >>, zones |-> << >>, pins |-> << >>, services |-> << >>,
    statuses |-> << >>, minWeightDiff |-> 0 ]

\* the predicate of shipments.filter (App.tsx:574-632); showDeliveredOnly is
\* false and searchText is '' in the Dashboard's filters, which skips the two
\* text conditions
PassesFilters(shipment, f) ==
  /\ InDateRange(shipment.pickup_date, f.dateStart, f.dateEnd)
  /\ ~(Len(f.carriers) > 0 /\ shipment.carrier \notin RangeOf(f.carriers))
  /\ ~(Len(f.zones) > 0 /\ shipment.zone \notin RangeOf(f.zones))
  /\ ~(Len(f.pins) > 0
        /\ ~\E i \in 1..Len(f.pins) : Contains(shipment.pin, f.pins[i]))
  /\ ~(Len(f.services) > 0 /\ shipment.service \notin RangeOf(f.services))
  /\ ~(Len(f.statuses) > 0 /\ shipment.status \notin RangeOf(f.statuses))
  /\ ~(shipment.weight_diff_kg < f.minWeightDiff)

applyFilters(shipments, f) == SelectSeq(shipments, LAMBDA s : PassesFilters(s, f))

-----------------------------------------------------------------------------
(* exportToCSV (App.tsx:638-672) and Dashboard.handleExport *)

\* the decimal digits of a natural number
RECURSIVE NatText(_)
NatText(n) ==
  IF n < 10 THEN << SubSeq(<< "0","1","2","3","4","5","6","7","8","9" >>, n + 1, n + 1)[1] >>
  ELSE NatText(n \div 10) \o NatText(n % 10)
\* String(n) of an integer
IntText(n) == IF n < 0 THEN << "-" >> \o NatText(-n) ELSE NatText(n)
\* the digits of n padded with zeros on the left to `width`
RECURSIVE PadZero(_, _)
PadZero(text, width) == IF Len(text) >= width THEN text ELSE PadZero(<< "0" >> \o text, width)

Pow10(k) == IF k = 2 THEN 100 ELSE 1000
\* (n / d).toFixed(digits) for d > 0: the quotient rounded to `digits`
\* decimals (halves away from zero), the sign kept for any negative value
toFixed(n, d, digits) ==
  LET abs == IF n < 0 THEN -n ELSE n
      part == ((abs % d) * Pow10(digits) + d \div 2) \div d
      whole == abs \div d + (IF part = Pow10(digits) THEN 1 ELSE 0)
  IN (IF n < 0 THEN << "-" >> ELSE << >>)
       \o NatText(whole) \o << "." >>
       \o PadZero(NatText(part % Pow10(digits)), digits)

\* the calendar day before y-m-d
DayBefore(t) ==
  IF t.d > 1 THEN [y |-> t.y, m |-> t.m, d |-> t.d - 1]
  ELSE IF t.m > 1 THEN [y |-> t.y, m |-> t.m - 1, d |-> DaysIn(t.y, t.m - 1)]
  ELSE [y |-> t.y - 1, m |-> 12, d |-> 31]
\* format(date, 'yyyy-MM-dd'): the date's calendar day in the local time
\* zone.  Midnight UTC is the day before in a zone west of Greenwich.
formatDay(t, west) ==
  LET day == IF t.kind = "utc" /\ west THEN DayBefore(t) ELSE t
  IN PadZero(NatText(day.y), 4) \o << "-" >> \o PadZero(NatText(day.m), 2)
       \o << "-" >> \o PadZero(NatText(day.d), 2)

\* Array.prototype.join: undefined elements give the empty string
RECURSIVE Join(_, _)
Join(texts, sep) ==
  IF texts = << >> THEN << >>
  ELSE IF Len(texts) = 1 THEN (IF texts[1] = UNDEF THEN << >> ELSE texts[1])
  ELSE (IF texts[1] = UNDEF THEN << >> ELSE texts[1]) \o sep \o Join(Tail(texts), sep)

\* `"${x}"`
Quoted(x) == << "\"" >> \o ToStr(x) \o << "\"" >>
YesNo(flag) == IF flag THEN << "Y" >> ELSE << "N" >>

\* the headers array (App.tsx:639-644)
headers ==
  << << "P","i","c","k","u","p"," ","D","a","t","e" >>,
     << "C","a","r","r","i","e","r" >>,
     << "A","W","B" >>,
     << "O","r","i","g","i","n" >>,
     << "D","e","s","t","i","n","a","t","i","o","n" >>,
     << "P","I","N" >>,
     << "P","i","e","c","e","s" >>,
     << "A","c","t","u","a","l"," ","W","e","i","g","h","t"," ","(","k","g",")" >>,
     << "C","h","a","r","g","e","d"," ","W","e","i","g","h","t"," ","(","k","g",")" >>,
     << "W","e","i","g","h","t"," ","D","i","f","f"," ","(","k","g",")" >>,
     << "W","e","i","g","h","t"," ","D","i","f","f"," ","(","%",")" >>,
     << "L","i","n","e"," ","A","m","o","u","n","t" >>,
     << "P","e","r"," ","K","g"," ","R","a","t","e" >>,
     << "P","r","o","d","u","c","t"," ","V","a","l","u","e" >>,
     << "S","e","r","v","i","c","e" >>,
     << "Z","o","n","e" >>,
     << "S","t","a","t","u","s" >>,
     << "H","i","g","h"," ","U","p","l","i","f","t" >>,
     << "R","o","u","n","d","u","p"," ","J","u","m","p" >>,
     << "V","a","l","u","e","-","W","e","i","g","h","t"," ","M","i","s","m","a","t","c","h" >>,
     << "C","h","a","r","g","e"," ","O","u","t","l","i","e","r" >>,
     << "M","i","s","s","i","n","g"," ","A","c","t","u","a","l" >> >>

\* the array of one shipment's cells (App.tsx:648-671)
ExportCells(s, west) ==
  << formatDay(s.pickup_date, west),
     CarrierChars(s.carrier),
     s.awb,
     Quoted(s.origin),
     Quoted(s.destination),
     s.pin,
     IntText(s.pieces),
     toFixed(s.actual_weight_kg, KG, 3),
     toFixed(s.charged_weight_kg, KG, 3),
     toFixed(s.weight_diff_kg, KG, 3),
     toFixed(s.weight_diff_percent.n, s.weight_diff_percent.d, 2),
     toFixed(s.line_amount, 1, 2),
     toFixed(s.per_kg_rate.n * KG, s.per_kg_rate.d, 2),
     toFixed(s.product_value, 1, 2),
     Quoted(s.service),
     s.zone,
     Quoted(s.status),
     YesNo(s.flag_high_uplift),
     YesNo(s.flag_roundup_jump),
     YesNo(s.flag_value_weight_mismatch),
     YesNo(s.flag_charge_outlier),
     YesNo(s.flag_missing_actual) >>

\* csvContent, as the list of the lines that join('\n') puts together
exportToCSV(shipments, west) ==
  << Join(headers, << "," >>) >>
    \o [i \in 1..Len(shipments) |-> Join(ExportCells(shipments[i], west), << "," >>)]

\* flaggedShipments (Dashboard.tsx:62-64)
flaggedShipments(filtered) == SelectSeq(filtered, LAMBDA s : s.flag_miscalculated)

-----------------------------------------------------------------------------
(* The upload gates of FileUpload.tsx *)

Columns(data) == IF Len(data) = 0 THEN {} ELSE DOMAIN data[1]

\* handleBlueDartUpload: the file is stored only when its first row has an
\* AWB column and a pickup-date column
BlueDartGate(data) ==
  /\ ("AWB_NO" \in Columns(data) \/ "AWB" \in Columns(data))
  /\ ("PICKUP_DT" \in Columns(data) \/ "PICKUP_DATE" \in Columns(data))

\* handleDelhiveryUpload
DelhiveryGate(data) ==
  {col \in {"waybill_num", "pickup_date"} : col \notin Columns(data)} = {}

-----------------------------------------------------------------------------
(* Uploaded files: the bounded inputs *)

\* longest run of equal rows in an uploaded file
MaxGroup == 21
\* most distinct PIN codes in an uploaded file
MaxPins == 11

NoCells == [c \in {} |-> 0]

d_Jul07 == << "0","7","-","J","u","l","-","2","5" >>
d_Aug15 == << "1","5","-","A","u","g","-","2","5" >>
d_Iso == << "2","0","2","5","-","0","3","-","0","9" >>
d_Delhivery == << "2","8","-","0","7","-","2","0","2","5"," ","0","7",":","4","8" >>
d_IsoTime == << "2","0","2","5","-","0","7","-","2","8","T","0","7",":","4","8" >>
d_Bad == << "N","/","A" >>
dest_MAA == << "M","A","A","-","C","H","E","N","N","A","I" >>
dest_DEL == << "D","E","L","-","D","E","L","H","I" >>
dest_XYZ == << "X","Y","Z" >>

\* a Carrier-A row in the layout of CSV_FORMAT_GUIDE.md
BlueDartRow(act, chrg, amount, value, pin, dest, svc) ==
  [ AWB_NO |-> << "9","0","1" >>, PICKUP_DT |-> d_Jul07,
    ACT_WT |-> act, CHRG_WT |-> chrg, AMOUNT |-> amount,
    ORIGIN |-> << "C","J","B" >>, DESTINATION |-> dest, PIN_CODE |-> pin,
    VALUE |-> value, PCS |-> 1, SVC |-> svc ]

\* a Carrier-B row in the layout of CSV_FORMAT_GUIDE.md
DelhiveryRow(chrg, amount, value, pin, zoneCells, svcCells, date) ==
  [ waybill_num |-> << "4","0","1" >>, pickup_date |-> date,
    charged_weight |-> chrg, total_amount |-> amount, product_value |-> value,
    item_shipped |-> << "1" >>, status |-> s_Delivered,
    destination_pin |-> pin, origin_center |-> << "C","B","E" >> ]
  @@ zoneCells @@ svcCells

pin_600045 == << "6","0","0","0","4","5" >>
pin_560070 == << "5","6","0","0","7","0" >>
svc_PPM == << "P","P","M" >>
zone_B == ("zone" :> << "B" >>)
type_Prepaid == ("package_type" :> << "P","r","e" >>)

\* alias columns of Carrier-A exports: which of the alternative headers the
\* file has, and whether the cell is filled
AwbCells ==
  { ("AWB_NO" :> << "9","0","1" >>),
    ("AWB" :> << "7","7" >>),
    ("AWB_NO" :> << "9","0","1" >>) @@ ("AWB" :> << "7","7" >>),
    ("AWB_NO" :> << >>) @@ ("AWB" :> << "7","7" >>) }
PickupCells ==
  { ("PICKUP_DT" :> d_Jul07),
    ("PICKUP_DATE" :> d_Aug15),
    ("PICKUP_DT" :> d_Jul07) @@ ("PICKUP_DATE" :> d_Aug15),
    ("PICKUP_DT" :> << >>) @@ ("PICKUP_DATE" :> d_Aug15),
    ("PICKUP_DT" :> d_Iso),
    ("PICKUP_DT" :> d_Bad) }
PinCells ==
  { NoCells,
    ("PIN CODE" :> pin_600045),
    ("PIN_CODE" :> pin_560070),
    ("PIN CODE" :> pin_600045) @@ ("PIN_CODE" :> pin_560070) }

AliasRows ==
  { a @@ p @@ q @@ [ ACT_WT |-> (94 * KG) \div 100, CHRG_WT |-> KG, AMOUNT |-> 87,
                     DESTINATION |-> dest_MAA, VALUE |-> 720, SVC |-> svc_PPM ]
    : a \in AwbCells, p \in PickupCells, q \in PinCells }

\* weights in units of 1/KG kg: negative, missing, 0.4, 0.9, 1 and 2 kg
ActWeights == { -KG, 0, (4 * KG) \div 10, (9 * KG) \div 10, KG, 2 * KG }
ChrgWeights == { 0, KG \div 2, KG, (3 * KG) \div 2, 2 * KG }
Amounts == { 0, 87 }
Values == { 0, 500, 1000, 2001 }

NumericRows ==
  { BlueDartRow(act, chrg, amount, value, pin_600045, dest_MAA, svc_PPM)
    : act \in ActWeights, chrg \in ChrgWeights, amount \in Amounts, value \in Values }

\* Carrier-B numbers: the charged weight as the file gives it, in kg (0.5) or
\* in grams (500, 1500), or too large for either (3000)
RawChrgWeights == { 0, KG \div 2, 500 * KG, 1500 * KG, 3000 * KG }
DelhiveryValues == { -360, 0, 360, 999, 1000, 2001 }
DelhiveryDates == { d_Delhivery, d_IsoTime, << >> }

DelhiveryNumericRows ==
  { DelhiveryRow(chrg, amount, value, pin_600045, zone_B, type_Prepaid, d_Delhivery)
    : chrg \in RawChrgWeights, amount \in {0, 32}, value \in DelhiveryValues }
DelhiveryUnitRows ==
  { DelhiveryRow(chrg, 32, 360, pin_560070, zone_B, type_Prepaid, date)
    : chrg \in RawChrgWeights \ {0}, date \in DelhiveryDates }

\* rows of the two carriers with the same weights, amount and value
SharedValues == { 0, 360, 1000 }
SharedChrg == { KG \div 2, (3 * KG) \div 2, 2 * KG }
SharedBlueDartRows ==
  { BlueDartRow(5 * v, c, 87, v, pin_600045, dest_DEL, svc_PPM)
    : v \in SharedValues, c \in SharedChrg }
SharedDelhiveryRows ==
  { DelhiveryRow(c, 87, v, pin_600045, zone_B, type_Prepaid, d_Delhivery)
    : v \in SharedValues, c \in SharedChrg }

\* rows with optional columns missing, empty or unparseable
t_NA == << "N","/","A" >>
t_2kg == << "2","k","g" >>
BlueDartBareRow == [ AWB_NO |-> << "9","0","1" >>, PICKUP_DT |-> d_Jul07 ]
DegenerateBlueDartRows ==
  { BlueDartBareRow,
    BlueDartBareRow @@ [ ACT_WT |-> KG ],
    BlueDartBareRow @@ [ ACT_WT |-> 0, CHRG_WT |-> 0, AMOUNT |-> 0, VALUE |-> 0, PCS |-> 0 ],
    BlueDartBareRow @@ [ typeof_string |->
                           [ ACT_WT |-> t_NA, CHRG_WT |-> << >>, AMOUNT |-> t_NA,
                             VALUE |-> t_NA, PCS |-> t_NA ] ],
    BlueDartBareRow @@ [ AMOUNT |-> 87,
                         typeof_string |-> [ ACT_WT |-> t_2kg, CHRG_WT |-> t_NA ] ],
    BlueDartBareRow @@ [ ACT_WT |-> 2 * KG, CHRG_WT |-> 3 * KG, AMOUNT |-> 87,
                         VALUE |-> 720, PCS |-> 2 ] }
DelhiveryBareRow == [ waybill_num |-> << "4","0","1" >>, pickup_date |-> d_Delhivery ]
DegenerateDelhiveryRows ==
  { DelhiveryBareRow,
    DelhiveryBareRow @@ [ charged_weight |-> 0, total_amount |-> 0, product_value |-> 0,
                          item_shipped |-> << >> ],
    DelhiveryBareRow @@ [ item_shipped |-> t_NA,
                          typeof_string |->
                            [ charged_weight |-> t_NA, total_amount |-> t_NA,
                              product_value |-> t_NA ] ],
    DelhiveryBareRow @@ [ charged_weight |-> KG, total_amount |-> 32, product_value |-> 360,
                          item_shipped |-> << "3" >> ],
    [ waybill_num |-> << "4","0","2" >>, pickup_date |-> << >> ] }
DegenerateFiles(rows) ==
  { << r >> : r \in rows } \cup { << r1, r2 >> : r1 \in rows, r2 \in rows }

\* Carrier-B batches of one to three rows whose charged weights lie on and
\* around the detector's limits of 50 and 2000 (the file's numbers, in 1/KG)
UnitWeights == { 0, KG \div 2, 50 * KG, 51 * KG, 100 * KG, 1999 * KG, 2000 * KG, 3000 * KG }
UnitRow(chrg) ==
  DelhiveryRow(chrg, 32, 360, pin_560070, zone_B, type_Prepaid, d_Delhivery)
UnitFiles ==
  { << UnitRow(a) >> : a \in UnitWeights }
    \cup { << UnitRow(a), UnitRow(b) >> : a \in UnitWeights, b \in UnitWeights }
    \cup { << UnitRow(a), UnitRow(b), UnitRow(c) >>
            : a \in {KG \div 2, 100 * KG, 3000 * KG},
              b \in {0, KG, 150 * KG, 3000 * KG}, c \in {200 * KG, 2 * KG, 3000 * KG} }

\* pickup dates: DD-MMM-YY strings over days the months have and days they
\* lack, and strings of the other formats and of none
DayTexts == { << "0","1" >>, << "7" >>, << "0","7" >>, << "2","8" >>, << "2","9" >>, << "3","0" >>,
              << "3","1" >> }
MonthTexts == { << "J","a","n" >>, << "F","e","b" >>, << "M","a","r" >>, << "A","p","r" >>,
                << "M","a","y" >>, << "J","u","n" >>, << "J","u","l" >>, << "A","u","g" >>,
                << "S","e","p" >>, << "O","c","t" >>, << "N","o","v" >>, << "D","e","c" >> }
YearTexts == { << "2","4" >>, << "2","5" >> }
DayMonthYearTexts ==
  { d \o << "-" >> \o m \o << "-" >> \o y : d \in DayTexts, m \in MonthTexts, y \in YearTexts }
OtherDateTexts ==
  { << >>, << " " >>, << " "," " >>, d_Bad, d_Iso, d_Delhivery, d_IsoTime,
    << "2","0","2","5","-","0","2","-","3","0" >>,
    << "2","0","2","5","-","1","3","-","0","1" >>,
    << "3","1","-","0","4","-","2","0","2","5"," ","0","7",":","4","8" >>,
    << "0","7","-","j","u","l","-","2","5" >>,
    << "3","2","-","J","a","n","-","2","5" >>,
    << "0","7","-","J","u","l","-","2","0","2","5" >>,
    << "0","7","/","0","7","/","2","0","2","5" >> }
DateRows ==
  { [ AWB_NO |-> << "9","0","1" >>, PICKUP_DT |-> t, ACT_WT |-> KG, CHRG_WT |-> KG,
      AMOUNT |-> 87, DESTINATION |-> dest_MAA, VALUE |-> 720, SVC |-> svc_PPM ]
    : t \in DayMonthYearTexts \cup OtherDateTexts }
DelhiveryDateRows ==
  { DelhiveryRow(KG, 32, 360, pin_560070, zone_B, type_Prepaid, t) : t \in OtherDateTexts }

\* a Carrier-B file of two rows picked up on one day at different times
d_IsoEvening == << "2","0","2","5","-","0","7","-","2","8","T","1","9",":","3","0" >>
SameDayFile ==
  << DelhiveryRow(KG, 32, 360, pin_560070, zone_B, type_Prepaid, d_IsoTime),
     DelhiveryRow(KG, 32, 360, pin_560070, zone_B, type_Prepaid, d_IsoEvening) >>

\* Carrier-B files of one or two rows whose zone is an ordinary name or a
\* name that object literals inherit
zone_constructor == ("zone" :> << "c","o","n","s","t","r","u","c","t","o","r" >>)
\* a zone cell with the separator in it, as a quoted CSV cell gives
zone_NorthEast == ("zone" :> << "N",",","E" >>)
KeyZoneRows ==
  { DelhiveryRow(chrg, 32, 360, pin_560070, z, type_Prepaid, d_Delhivery)
    : chrg \in {KG \div 2, KG}, z \in {zone_B, zone_constructor, zone_NorthEast} }
KeyZoneFiles ==
  { << r >> : r \in KeyZoneRows } \cup { << r1, r2 >> : r1 \in KeyZoneRows, r2 \in KeyZoneRows }

\* zone and package_type cells of Carrier-B rows: absent, plain, or with the
\* separator character in them
ZoneCells == { NoCells, ("zone" :> << "a" >>), ("zone" :> << "a","_" >>) }
TypeCells == { NoCells, ("package_type" :> << "a" >>),
               ("package_type" :> << "_","a" >>) }
ZoneRows ==
  { DelhiveryRow(500 * KG, 32, 360, pin_600045, z, t, d_Delhivery)
    : z \in ZoneCells, t \in TypeCells }

Rep(row, n) == [i \in 1..n |-> row]

\* Carrier-B rows of the two (zone, package_type) pairs ("a", "_a") and
\* ("a_", "a"): a run of the first pair at one rate and at most one at ten
\* times the rate, then at most one row each of the second pair at a lower
\* rate and with no amount
PairOneRow(amount) ==
  DelhiveryRow(500 * KG, amount, 360, pin_600045, ("zone" :> << "a" >>),
               ("package_type" :> << "_","a" >>), d_Delhivery)
PairTwoRow(amount) ==
  DelhiveryRow(500 * KG, amount, 360, pin_600045, ("zone" :> << "a","_" >>),
               ("package_type" :> << "a" >>), d_Delhivery)
SeparatorFiles ==
  { Rep(PairOneRow(32), m) \o Rep(PairOneRow(320), h) \o Rep(PairTwoRow(3), l)
      \o Rep(PairTwoRow(0), z)
    : m \in 0..MaxGroup, h \in 0..1, l \in 0..1, z \in 0..1 }

\* one (carrier, zone, service) group: a run of equal rows at the common rate,
\* then at most one row each at a far higher, a far lower and a slightly
\* different rate, and one with no amount
GroupRow(amount) == BlueDartRow(KG, KG, amount, 720, pin_600045, dest_MAA, svc_PPM)
LowRow == BlueDartRow(KG \div 2, KG, 10, 720, pin_560070, dest_MAA, svc_PPM)
GroupFiles ==
  { Rep(GroupRow(100), m) \o Rep(GroupRow(900), h) \o Rep(LowRow, l)
      \o Rep(GroupRow(101), n) \o Rep(GroupRow(0), z)
    : m \in 0..MaxGroup, h \in 0..1, l \in 0..1, n \in 0..1, z \in 0..1 }
\* a Carrier-B row with the zone and service of the Carrier-A rows above, next
\* to four or five of those rows and one with no amount
SameZoneRow ==
  DelhiveryRow(KG, 100, 720, pin_600045, ("zone" :> deriveZoneFromDestination(dest_MAA)),
               ("package_type" :> svc_PPM), d_Delhivery)
CrossCarrierUploads ==
  { << Rep(GroupRow(100), m) \o << GroupRow(0) >>, << SameZoneRow >> >> : m \in {4, 5} }
OtherCarrierFiles ==
  { << >>, << DelhiveryRow(2 * KG, 32, 360, pin_560070, zone_B, type_Prepaid,
                          d_Delhivery) >> }

\* overbilled rows (0.5 kg billed as 1 kg) with PIN codes that are array
\* indices ("20", "3", "100") and PIN codes that are not ("a", "03")
PinRow(pin, amount) == BlueDartRow(KG \div 2, KG, amount, 720, pin, dest_MAA, svc_PPM)
PinRows ==
  { PinRow(<< "2","0" >>, 20), PinRow(<< "3" >>, 3), PinRow(<< "1","0","0" >>, 100),
    PinRow(<< "a" >>, 7), PinRow(<< "0","3" >>, 30),
    BlueDartRow(KG, KG, 50, 720, << "3" >>, dest_MAA, svc_PPM) }
PinFiles ==
  { << r >> : r \in PinRows }
    \cup { << r1, r2 >> : r1 \in PinRows, r2 \in PinRows }
    \cup { << r1, r2, r3 >> : r1 \in PinRows, r2 \in PinRows, r3 \in PinRows }

\* k distinct PIN codes: 6-digit postal codes in descending order, or letters
DigitChars == << "0","1","2","3","4","5","6","7","8","9" >>
LetterChars == << "a","b","c","d","e","f","g","h","i","j","k","l","m",
                  "n","o","p","q","r","s","t" >>
PostalPin(i) == << "6","0","0","0", DigitChars[(i \div 10) + 1], DigitChars[(i % 10) + 1] >>
LetterPin(i) == << LetterChars[i] >>
ManyPinFiles ==
  { [i \in 1..k |-> PinRow(PostalPin(k + 1 - i), 10)] : k \in 2..MaxPins }
    \cup { [i \in 1..k |-> PinRow(LetterPin(i), 10)] : k \in 2..MaxPins }

\* what FileUpload hands to handleDataLoaded: for each carrier either nothing
\* uploaded or a file that passed the carrier's gate, and not both empty
\* (handleStartAnalysis, FileUpload.tsx:130-138)
Uploads ==
  LET candidates ==
        { << << r >>, << >> >> : r \in AliasRows \cup NumericRows }
        \cup { << << >>, << r >> >> : r \in DelhiveryNumericRows }
        \cup { << << >>, << r1, r2 >> >> : r1 \in DelhiveryUnitRows, r2 \in DelhiveryUnitRows }
        \cup { << << a >>, << b >> >> : a \in SharedBlueDartRows, b \in SharedDelhiveryRows }
        \cup { << << >>, << r1, r2 >> >> : r1 \in ZoneRows, r2 \in ZoneRows }
        \cup { << g, o >> : g \in GroupFiles, o \in OtherCarrierFiles }
        \cup { << << >>, f >> : f \in SeparatorFiles }
        \cup { << f, << >> >> : f \in PinFiles \cup ManyPinFiles }
        \cup { << f, << >> >> : f \in DegenerateFiles(DegenerateBlueDartRows) }
        \cup { << << >>, f >> : f \in DegenerateFiles(DegenerateDelhiveryRows) }
        \cup { << << a >>, << b >> >> : a \in DegenerateBlueDartRows,
                                     b \in DegenerateDelhiveryRows }
        \cup { << << >>, f >> : f \in UnitFiles }
        \cup { << << r >>, << >> >> : r \in DateRows }
        \cup { << << >>, f >> : f \in KeyZoneFiles }
        \cup { << << >>, << r >> >> : r \in DelhiveryDateRows }
        \cup { << << >>, SameDayFile >> }
        \cup CrossCarrierUploads
  IN { u \in candidates :
         /\ (u[1] = << >> \/ BlueDartGate(u[1]))
         /\ (u[2] = << >> \/ DelhiveryGate(u[2]))
         /\ ~(Len(u[1]) = 0 /\ Len(u[2]) = 0) }

\* the runtime when a run normalizes: the clock, a day inside the Dashboard's
\* default date range or a day after it, and the engine's Date parser
Clock ==
  { [y |-> 2025, m |-> 8, d |-> 20, lenient |-> l] : l \in BOOLEAN }
    \cup { [y |-> 2026, m |-> 2, d |-> 3, lenient |-> l] : l \in BOOLEAN }

-----------------------------------------------------------------------------
(* The App component (App.tsx:16-149) *)

VARIABLES
  pc,                 \* where handleDataLoaded is: "idle" when no run is under way
  loading,            \* App state
  showDashboard,      \* App state
  shipments,          \* App state
  blueDartData,       \* handleDataLoaded's arguments
  delhiveryData,
  normalizedBlueDart, \* handleDataLoaded's locals
  normalizedDelhivery,
  combinedShipments,
  runs,               \* calls of calculateOutliers in this run
  filteredShipments,  \* the Dashboard's memo of applyFilters
  kpis,               \* the Dashboard's memo of calculateKPIs
  exported,           \* the lines of the CSV the Dashboard last handed to the browser
  processingSteps,    \* App state
  closureSteps,       \* processingSteps as the running handleDataLoaded closed over it
  thrown,             \* the error a step of the run has thrown, not yet handled
  blueDartFile,       \* FileUpload state
  delhiveryFile,      \* FileUpload state
  uploadedBlueDartData,   \* FileUpload state blueDartData
  uploadedDelhiveryData,  \* FileUpload state delhiveryData
  uploading,          \* FileUpload state
  errors,             \* FileUpload state
  success,            \* FileUpload state
  parsing,            \* the parseCSV promises not yet settled, oldest first
  selections          \* file selections made so far

vars == << pc, loading, showDashboard, shipments, blueDartData, delhiveryData,
           normalizedBlueDart, normalizedDelhivery, combinedShipments, runs,
           filteredShipments, kpis, exported, processingSteps, closureSteps, thrown,
           blueDartFile, delhiveryFile, uploadedBlueDartData, uploadedDelhiveryData,
           uploading, errors, success, parsing, selections >>

\* the state of the FileUpload component, and the state of App and its handler
uploadVars == << blueDartFile, delhiveryFile, uploadedBlueDartData, uploadedDelhiveryData,
                 uploading, errors, success, parsing, selections >>
appVars == << pc, loading, showDashboard, shipments, blueDartData, delhiveryData,
              normalizedBlueDart, normalizedDelhivery, combinedShipments, runs,
              filteredShipments, kpis, exported, processingSteps, closureSteps, thrown >>
\* no file chosen
NoFile == [name |-> "", csv |-> FALSE, broken |-> FALSE, rows |-> << >>]
\* FileUpload as it mounts (FileUpload.tsx:11-17)
UploadInit ==
  /\ blueDartFile = NoFile
  /\ delhiveryFile = NoFile
  /\ uploadedBlueDartData = << >>
  /\ uploadedDelhiveryData = << >>
  /\ uploading = "none"
  /\ errors = << >>
  /\ success = << >>
  /\ parsing = << >>
  /\ selections = 0

\* calls of calculateOutliers on one list that the re-run specification makes
MaxRuns == 2

\* the steps array of handleDataLoaded (App.tsx:38-46), each step's status
\* and details
StepIds == << "validate", "normalize-bluedart", "normalize-delhivery", "combine",
             "calculate", "finalize" >>
Details(n, text) == [n |-> n, text |-> text]
NoDetails == Details(0, "")
PendingSteps == [i \in 1..Len(StepIds) |->
                   [id |-> StepIds[i], status |-> "pending", details |-> NoDetails]]
\* updateStep (App.tsx:28-32) applied to a list of steps
updateStep(steps, stepId, status, details) ==
  [i \in 1..Len(steps) |->
     IF steps[i].id = stepId
     THEN [steps[i] EXCEPT !.status = status, !.details = details]
     ELSE steps[i]]
Processing(steps, stepId) == updateStep(steps, stepId, "processing", NoDetails)
\* no error pending
NoError == ""
\* processingSteps.find(step => step.status === 'processing'): the index of
\* the first such step, 0 when there is none
FindProcessing(steps) ==
  IF \E i \in 1..Len(steps) : steps[i].status = "processing"
  THEN CHOOSE i \in 1..Len(steps) :
         /\ steps[i].status = "processing"
         /\ \A j \in 1..(i - 1) : steps[j].status # "processing"
  ELSE 0

\* no export yet
NoExport == << >>

\* what App renders (App.tsx:121-148)
ProgressShown == loading
DashboardShown == ~loading /\ showDashboard /\ Len(shipments) > 0
FileUploadShown == ~loading /\ ~DashboardShown

Init ==
  /\ pc = "idle"
  /\ loading = FALSE
  /\ showDashboard = FALSE
  /\ shipments = << >>
  /\ blueDartData = << >>
  /\ delhiveryData = << >>
  /\ normalizedBlueDart = << >>
  /\ normalizedDelhivery = << >>
  /\ combinedShipments = << >>
  /\ runs = 0
  /\ filteredShipments = << >>
  /\ kpis = calculateKPIs(<< >>)
  /\ exported = NoExport
  /\ processingSteps = << >>
  /\ closureSteps = << >>
  /\ thrown = NoError
  /\ UploadInit

\* FileUpload.handleStartAnalysis calls handleDataLoaded, which sets loading
\* and validates (App.tsx:35-59); the upload never passes two empty lists, so
\* the validation does not throw
StartAnalysis(u) ==
  /\ pc = "idle"
  /\ FileUploadShown
  /\ pc' = "validated"
  /\ loading' = TRUE
  /\ blueDartData' = u[1]
  /\ delhiveryData' = u[2]
  /\ runs' = 0
  /\ closureSteps' = processingSteps
  /\ processingSteps' = updateStep(PendingSteps, "validate", "completed",
                                   Details(Len(u[1]) + Len(u[2]), "total records"))
  /\ UNCHANGED << showDashboard, shipments, normalizedBlueDart, normalizedDelhivery,
                  combinedShipments, filteredShipments, kpis, exported, thrown >>
  /\ UNCHANGED uploadVars

\* App.tsx:61-79: both normalizers, then the concatenation
Normalize(now) ==
  /\ pc = "validated"
  /\ pc' = "normalized"
  /\ normalizedBlueDart' = normalizeBlueDart(blueDartData, now)
  /\ normalizedDelhivery' = normalizeDelhivery(delhiveryData, now)
  /\ combinedShipments' = normalizedBlueDart' \o normalizedDelhivery'
  /\ processingSteps' =
       updateStep(
         updateStep(
           updateStep(processingSteps, "normalize-bluedart", "completed",
                      Details(Len(normalizedBlueDart'), "records")),
           "normalize-delhivery", "completed", Details(Len(normalizedDelhivery'), "records")),
         "combine", "completed", Details(Len(combinedShipments'), "total shipments"))
  /\ UNCHANGED << loading, showDashboard, shipments, blueDartData, delhiveryData,
                  runs, filteredShipments, kpis, exported, closureSteps, thrown >>
  /\ UNCHANGED uploadVars

\* calculateOutliers changes the records in place: the locals that hold the
\* same records see the new flags
Flagged(list) ==
  /\ combinedShipments' = list
  /\ normalizedBlueDart' = SubSeq(list, 1, Len(normalizedBlueDart))
  /\ normalizedDelhivery' = SubSeq(list, Len(normalizedBlueDart) + 1, Len(list))

\* the steps once the calculate and finalize steps are completed (App.tsx:85-93)
StepsAfterOutliers(steps, withOutliers) ==
  updateStep(
    updateStep(steps, "calculate", "completed",
               Details(Len(SelectSeq(withOutliers, LAMBDA s : s.flag_miscalculated)),
                       "flagged shipments")),
    "finalize", "completed", Details(0, "Ready to view"))

\* the handler passing the combined list on without calling calculateOutliers
CalculateOutliersSkipped ==
  /\ pc = "normalized"
  /\ pc' = "delay"
  /\ shipments' = combinedShipments
  /\ runs' = runs + 1
  /\ processingSteps' = StepsAfterOutliers(processingSteps, shipments')
  /\ UNCHANGED << loading, showDashboard, blueDartData, delhiveryData,
                  normalizedBlueDart, normalizedDelhivery, combinedShipments,
                  filteredShipments, kpis, exported, closureSteps, thrown >>
  /\ UNCHANGED uploadVars

\* App.tsx:81-96: calculateOutliers, setShipments, then the await
CalculateOutliers ==
  /\ pc = "normalized"
  /\ pc' = "delay"
  /\ Flagged(calculateOutliers(combinedShipments))
  /\ shipments' = combinedShipments'
  /\ runs' = runs + 1
  /\ processingSteps' = StepsAfterOutliers(processingSteps, shipments')
  /\ UNCHANGED << loading, showDashboard, blueDartData, delhiveryData,
                  filteredShipments, kpis, exported, closureSteps, thrown >>
  /\ UNCHANGED uploadVars

\* App.tsx:97 and 109-111: the timer fires, setShowDashboard(true), and the
\* finally block resets loading; the handler's arguments and locals are gone
FinishDelay ==
  /\ pc = "delay"
  /\ pc' = "idle"
  /\ showDashboard' = TRUE
  /\ loading' = FALSE
  /\ blueDartData' = << >>
  /\ delhiveryData' = << >>
  /\ normalizedBlueDart' = << >>
  /\ normalizedDelhivery' = << >>
  /\ combinedShipments' = << >>
  /\ UNCHANGED << shipments, runs, filteredShipments, kpis, exported,
                  processingSteps, closureSteps, thrown >>
  /\ UNCHANGED uploadVars

\* the Dashboard mounts with its initial filters (Dashboard.tsx:22-44)
RenderDashboard ==
  /\ pc = "idle"
  /\ DashboardShown
  /\ pc' = "dashboard"
  /\ filteredShipments' = applyFilters(shipments, filters)
  /\ kpis' = calculateKPIs(filteredShipments')
  /\ UNCHANGED << loading, showDashboard, shipments, blueDartData, delhiveryData,
                  normalizedBlueDart, normalizedDelhivery, combinedShipments, runs, exported,
                  processingSteps, closureSteps, thrown >>
  /\ UNCHANGED uploadVars

\* handleReset (App.tsx:114-119): Cancel on the progress screen while the
\* handler awaits, or Upload New Data on the dashboard
HandleResetKeepsShipments ==
  /\ \/ pc = "delay" /\ ProgressShown
     \/ pc \in {"idle", "dashboard"} /\ DashboardShown
  /\ shipments' = IF pc = "delay" THEN shipments ELSE << >>
  /\ showDashboard' = FALSE
  /\ pc' = IF pc = "delay" THEN "delay" ELSE "idle"
  /\ filteredShipments' = << >>
  /\ kpis' = calculateKPIs(<< >>)
  /\ exported' = NoExport
  /\ processingSteps' = << >>
  /\ UNCHANGED << loading, blueDartData, delhiveryData, normalizedBlueDart,
                  normalizedDelhivery, combinedShipments, runs, closureSteps, thrown >>
  /\ UNCHANGED uploadVars

HandleReset ==
  /\ \/ pc = "delay" /\ ProgressShown
     \/ pc \in {"idle", "dashboard"} /\ DashboardShown
  /\ shipments' = << >>
  /\ showDashboard' = FALSE
  /\ pc' = IF pc = "delay" THEN "delay" ELSE "idle"
  /\ filteredShipments' = << >>
  /\ kpis' = calculateKPIs(<< >>)
  /\ exported' = NoExport
  /\ processingSteps' = << >>
  /\ UNCHANGED << loading, blueDartData, delhiveryData, normalizedBlueDart,
                  normalizedDelhivery, combinedShipments, runs, closureSteps, thrown >>
  /\ UNCHANGED uploadVars

\* handleExport (Dashboard.tsx:66-69): Export All or Export Flagged, in a
\* browser whose time zone is west of Greenwich or not
ExportCSV(type, west) ==
  /\ pc = "dashboard"
  /\ exported' = exportToCSV(IF type = "all" THEN filteredShipments
                              ELSE flaggedShipments(filteredShipments), west)
  /\ UNCHANGED << pc, loading, showDashboard, shipments, blueDartData, delhiveryData,
                  normalizedBlueDart, normalizedDelhivery, combinedShipments, runs,
                  filteredShipments, kpis,
                  processingSteps, closureSteps, thrown >>
  /\ UNCHANGED uploadVars

Next ==
  \/ \E u \in Uploads : StartAnalysis(u)
  \/ \E now \in Clock : Normalize(now)
  \/ CalculateOutliers
  \/ FinishDelay
  \/ RenderDashboard
  \/ HandleReset
  \/ \E type \in {"all", "flagged"} : \E west \in BOOLEAN : ExportCSV(type, west)

Spec == Init /\ [][Next]_vars

\* calculateOutliers once more on the list it returned
Recalculate ==
  /\ pc = "delay"
  /\ runs \in 1..(MaxRuns - 1)
  /\ Flagged(calculateOutliers(combinedShipments))
  /\ shipments' = IF shipments = << >> THEN << >> ELSE combinedShipments'
  /\ runs' = runs + 1
  /\ UNCHANGED << pc, loading, showDashboard, blueDartData, delhiveryData,
                  filteredShipments, kpis, exported,
                  processingSteps, closureSteps, thrown >>
  /\ UNCHANGED uploadVars

NextRerun == Next \/ Recalculate

SpecRerun == Init /\ [][NextRerun]_vars

\* handleDataLoaded called with two empty lists: the validation throws
\* (App.tsx:55-57) while the validate step is processing
ValidationThrows ==
  /\ pc = "idle"
  /\ FileUploadShown
  /\ pc' = "catch"
  /\ loading' = TRUE
  /\ blueDartData' = << >>
  /\ delhiveryData' = << >>
  /\ runs' = 0
  /\ closureSteps' = processingSteps
  /\ processingSteps' = Processing(PendingSteps, "validate")
  /\ thrown' = "No data found in uploaded files"
  /\ UNCHANGED << showDashboard, shipments, normalizedBlueDart, normalizedDelhivery,
                  combinedShipments, filteredShipments, kpis, exported >>
  /\ UNCHANGED uploadVars

\* a normalizer throws while its step is processing (App.tsx:62-71)
NormalizerThrows(stepId) ==
  /\ pc = "validated"
  /\ pc' = "catch"
  /\ processingSteps' =
       IF stepId = "normalize-bluedart" THEN Processing(processingSteps, stepId)
       ELSE Processing(updateStep(processingSteps, "normalize-bluedart", "completed",
                                  Details(Len(blueDartData), "records")), stepId)
  /\ thrown' = "normalizer failed"
  /\ UNCHANGED << loading, showDashboard, shipments, blueDartData, delhiveryData,
                  normalizedBlueDart, normalizedDelhivery, combinedShipments, runs,
                  filteredShipments, kpis, exported, closureSteps >>
  /\ UNCHANGED uploadVars

\* calculateOutliers throws while the calculate step is processing
\* (App.tsx:81-83)
OutliersThrow ==
  /\ pc = "normalized"
  /\ pc' = "catch"
  /\ processingSteps' = Processing(processingSteps, "calculate")
  /\ thrown' = "outlier calculation failed"
  /\ UNCHANGED << loading, showDashboard, shipments, blueDartData, delhiveryData,
                  normalizedBlueDart, normalizedDelhivery, combinedShipments, runs,
                  filteredShipments, kpis, exported, closureSteps >>
  /\ UNCHANGED uploadVars

\* the catch and finally blocks (App.tsx:98-111): the step to mark is looked
\* up in the processingSteps the handler closed over
CatchError ==
  /\ pc = "catch"
  /\ pc' = "idle"
  /\ processingSteps' =
       IF FindProcessing(closureSteps) = 0 THEN processingSteps
       ELSE updateStep(processingSteps, closureSteps[FindProcessing(closureSteps)].id,
                       "error", Details(0, thrown))
  /\ thrown' = NoError
  /\ loading' = FALSE
  /\ blueDartData' = << >>
  /\ delhiveryData' = << >>
  /\ normalizedBlueDart' = << >>
  /\ normalizedDelhivery' = << >>
  /\ combinedShipments' = << >>
  /\ UNCHANGED << showDashboard, shipments, runs, filteredShipments, kpis, exported,
                  closureSteps >>
  /\ UNCHANGED uploadVars

\* the uploads of the runs in which a step may throw
FaultUploads ==
  { u \in Uploads : \/ u[1] = << >> /\ u[2] = SameDayFile
                    \/ Len(u[1]) = 1 /\ Len(u[2]) = 1
                         /\ u[1][1] \in SharedBlueDartRows /\ u[2][1] \in SharedDelhiveryRows }

NextThrow ==
  \/ \E u \in FaultUploads : StartAnalysis(u)
  \/ \E now \in Clock : Normalize(now)
  \/ CalculateOutliers
  \/ FinishDelay
  \/ RenderDashboard
  \/ HandleReset
  \/ ValidationThrows
  \/ \E stepId \in {"normalize-bluedart", "normalize-delhivery"} : NormalizerThrows(stepId)
  \/ OutliersThrow
  \/ CatchError

SpecThrow == Init /\ [][NextThrow]_vars

-----------------------------------------------------------------------------
(* The FileUpload component (FileUpload.tsx:10-139) *)

\* file selections in one mounting of the component
MaxSelections == 3

\* the files the user picks from: two Carrier-A exports, a Carrier-B export,
\* a CSV that Papa.parse reports errors for, and a file that is not a CSV
UserFiles ==
  { [name |-> "a.csv", csv |-> TRUE, broken |-> FALSE, rows |-> << GroupRow(100) >>],
    [name |-> "b.csv", csv |-> TRUE, broken |-> FALSE, rows |-> << LowRow, GroupRow(0) >>],
    [name |-> "d.csv", csv |-> TRUE, broken |-> FALSE, rows |-> << SameZoneRow >>],
    [name |-> "torn.csv", csv |-> TRUE, broken |-> TRUE, rows |-> << >>],
    [name |-> "notes.txt", csv |-> FALSE, broken |-> FALSE, rows |-> << >>] }

\* the disabled attribute of the two file inputs (FileUpload.tsx:177, 236)
InputDisabled(type) ==
  IF type = "blueDart" THEN uploading = "bluedart" ELSE uploading = "delhivery"

\* handleFileChange (FileUpload.tsx:112-128) up to the await in
\* handleBlueDartUpload or handleDelhiveryUpload (FileUpload.tsx:50-55, 84-89)
HandleFileChange(type, file) ==
  /\ pc = "idle" /\ FileUploadShown
  /\ uploading # "processing"
  /\ ~InputDisabled(type)
  /\ selections < MaxSelections
  /\ selections' = selections + 1
  /\ IF ~file.csv
     THEN /\ errors' = << IF type = "blueDart" THEN "BlueDart file must be a CSV file"
                           ELSE "Delhivery file must be a CSV file" >>
          /\ UNCHANGED << blueDartFile, delhiveryFile, uploading, parsing >>
     ELSE /\ blueDartFile' = IF type = "blueDart" THEN file ELSE blueDartFile
          /\ delhiveryFile' = IF type = "delhivery" THEN file ELSE delhiveryFile
          /\ uploading' = IF type = "blueDart" THEN "bluedart" ELSE "delhivery"
          /\ errors' = << >>
          /\ parsing' = Append(parsing, [type |-> type, file |-> file])
  /\ UNCHANGED << uploadedBlueDartData, uploadedDelhiveryData, success >>
  /\ UNCHANGED appVars

\* the message of the error the upload handler throws for the parsed data,
\* "" when it throws none (FileUpload.tsx:23-24, 63-72, 95-100)
UploadError(type, file) ==
  IF file.broken THEN "CSV parsing error"
  ELSE IF type = "blueDart"
  THEN IF ~("AWB_NO" \in Columns(file.rows) \/ "AWB" \in Columns(file.rows))
       THEN "BlueDart file missing AWB column (expected AWB_NO or AWB)"
       ELSE IF ~BlueDartGate(file.rows)
       THEN "BlueDart file missing pickup date column (expected PICKUP_DT or PICKUP_DATE)"
       ELSE ""
  ELSE IF ~DelhiveryGate(file.rows) THEN "Delhivery file missing required columns"
  ELSE ""

\* success without the messages of one carrier
WithoutCarrier(messages, carrier) == SelectSeq(messages, LAMBDA m : m.carrier # carrier)

Remove(seq, k) == [i \in 1..(Len(seq) - 1) |-> IF i < k THEN seq[i] ELSE seq[i + 1]]

\* a parseCSV promise settles and its handler runs to the end
\* (FileUpload.tsx:55-81, 89-109)
ParseSettles(k) ==
  /\ k \in 1..Len(parsing)
  /\ uploading # "processing"
  /\ parsing' = Remove(parsing, k)
  /\ uploading' = "none"
  /\ LET type == parsing[k].type
         file == parsing[k].file
     IN IF UploadError(type, file) # ""
        THEN /\ errors' = << UploadError(type, file) >>
             /\ UNCHANGED << uploadedBlueDartData, uploadedDelhiveryData, success >>
        ELSE /\ uploadedBlueDartData' =
                  IF type = "blueDart" THEN file.rows ELSE uploadedBlueDartData
             /\ uploadedDelhiveryData' =
                  IF type = "delhivery" THEN file.rows ELSE uploadedDelhiveryData
             /\ success' =
                  Append(WithoutCarrier(success, IF type = "blueDart" THEN "BlueDart"
                                                 ELSE "Delhivery"),
                         [carrier |-> IF type = "blueDart" THEN "BlueDart" ELSE "Delhivery",
                          records |-> Len(file.rows)])
             /\ UNCHANGED errors
  /\ UNCHANGED << blueDartFile, delhiveryFile, selections >>
  /\ UNCHANGED appVars

\* handleStartAnalysis (FileUpload.tsx:130-138): the component hands its
\* rows to onDataLoaded, which runs handleDataLoaded up to its first await
\* (App.tsx:34-60)
HandleStartAnalysis ==
  /\ pc = "idle" /\ FileUploadShown
  /\ uploading # "processing"
  /\ Len(uploadedBlueDartData) > 0 \/ Len(uploadedDelhiveryData) > 0
  /\ uploading' = "processing"
  /\ pc' = "validated"
  /\ loading' = TRUE
  /\ blueDartData' = uploadedBlueDartData
  /\ delhiveryData' = uploadedDelhiveryData
  /\ runs' = 0
  /\ closureSteps' = processingSteps
  /\ processingSteps' =
       updateStep(PendingSteps, "validate", "completed",
                  Details(Len(uploadedBlueDartData) + Len(uploadedDelhiveryData),
                          "total records"))
  /\ UNCHANGED << showDashboard, shipments, normalizedBlueDart, normalizedDelhivery,
                  combinedShipments, filteredShipments, kpis, exported, thrown >>
  /\ UNCHANGED << blueDartFile, delhiveryFile, uploadedBlueDartData, uploadedDelhiveryData,
                  errors, success, parsing, selections >>

NextUpload ==
  \/ \E type \in {"blueDart", "delhivery"} : \E file \in UserFiles :
       HandleFileChange(type, file)
  \/ \E k \in 1..MaxSelections : ParseSettles(k)
  \/ HandleStartAnalysis

SpecUpload == Init /\ [][NextUpload]_vars

-----------------------------------------------------------------------------
(* Properties *)

\* calculateOutliers has returned and the handler holds the list it returned
Returned == pc = "delay" /\ runs >= 1
\* ... and it ran once, on freshly normalized records
ReturnedOnce == pc = "delay" /\ runs = 1

Indices(list) == 1..Len(list)

\* the (carrier, zone, service) group of list[i]
SameComposite(a, b) ==
  a.carrier = b.carrier /\ a.zone = b.zone /\ a.service = b.service
CompositeGroup(list, i) == {j \in Indices(list) : SameComposite(list[i], list[j])}
PositiveMembers(list, G) == {j \in G : list[j].per_kg_rate.n > 0}

\* the rate at 0-based position k of the ascending order of the rates of P
RateAt(list, P, k) ==
  LET j == CHOOSE x \in P :
             /\ Cardinality({y \in P : FracLT(list[y].per_kg_rate, list[x].per_kg_rate)}) <= k
             /\ k < Cardinality({y \in P : ~FracLT(list[x].per_kg_rate, list[y].per_kg_rate)})
  IN list[j].per_kg_rate

\* C1: after calculateOutliers returns, every shipment has
\* flag_miscalculated = is_overbilled OR flag_roundup_jump OR flag_charge_outlier,
\* whatever the size of its group
C1_MiscalculatedIsUnion ==
  Returned =>
    \A i \in Indices(combinedShipments) :
      LET s == combinedShipments[i]
      IN s.flag_miscalculated
           = (s.is_overbilled \/ s.flag_roundup_jump \/ s.flag_charge_outlier)

\* C2: in a (carrier, zone, service) group with n >= 5 positive rates, every
\* member is flagged exactly when its rate is below the rate at index
\* floor(n*0.05) or above the rate at index floor(n*0.95) of the ascending
\* positive rates of the group
C2_PercentileRule ==
  ReturnedOnce =>
    \A i \in Indices(combinedShipments) :
      LET P == PositiveMembers(combinedShipments, CompositeGroup(combinedShipments, i))
          n == Cardinality(P)
          rate == combinedShipments[i].per_kg_rate
      IN n >= 5 =>
           combinedShipments[i].flag_charge_outlier
             = (\/ FracLT(rate, RateAt(combinedShipments, P, (n * 5) \div 100))
                \/ FracLT(RateAt(combinedShipments, P, (n * 95) \div 100), rate))

\* C3: on freshly normalized shipments, no member of a (carrier, zone, service)
\* group with fewer than 5 positive rates gets flag_charge_outlier
C3_SmallGroupsUnflagged ==
  ReturnedOnce =>
    \A i \in Indices(combinedShipments) :
      Cardinality(PositiveMembers(combinedShipments,
                                  CompositeGroup(combinedShipments, i))) < 5
        => ~combinedShipments[i].flag_charge_outlier

\* rates within 5 percent of one another; a rate more than twice or less than
\* half another
NearRates(a, b) ==
  LET x == a.n * b.d
      y == b.n * a.d
  IN 100 * (IF x < y THEN y - x ELSE x - y) <= 5 * (IF x < y THEN x ELSE y)
FarRates(a, b) == a.n * b.d > 2 * b.n * a.d \/ 2 * a.n * b.d < b.n * a.d
LoneOutlier(list, G, i) ==
  /\ \A j \in G \ {i} : FarRates(list[i].per_kg_rate, list[j].per_kg_rate)
  /\ \A j \in G \ {i} : \A k \in G \ {i} :
       NearRates(list[j].per_kg_rate, list[k].per_kg_rate)

\* C4: in a group of at least 20 shipments, all with positive rates that are
\* near-identical except one far-outlying rate, that one record is flagged
\* and no other member is
C4_LoneOutlierFlagged ==
  ReturnedOnce =>
    \A i \in Indices(combinedShipments) :
      LET G == CompositeGroup(combinedShipments, i)
      IN (/\ Cardinality(G) >= 20
          /\ PositiveMembers(combinedShipments, G) = G
          /\ LoneOutlier(combinedShipments, G, i))
         => /\ combinedShipments[i].flag_charge_outlier
            /\ \A j \in G \ {i} : ~combinedShipments[j].flag_charge_outlier

\* C5: two shipments are in the same group of calculateOutliers exactly when
\* their carrier, zone and service are equal
C5_GroupsAreComposite ==
  Returned =>
    \A i \in Indices(combinedShipments) : \A j \in Indices(combinedShipments) :
      (GroupKey(combinedShipments[i]) = GroupKey(combinedShipments[j]))
        <=> SameComposite(combinedShipments[i], combinedShipments[j])

OutlierFlags(list) ==
  [i \in Indices(list) |-> << list[i].flag_charge_outlier, list[i].flag_miscalculated >>]

\* C6: calculateOutliers run again on the list it returned leaves
\* flag_charge_outlier and flag_miscalculated of every shipment as they were
C6_RerunKeepsFlags ==
  [][(runs >= 1 /\ runs' = runs + 1)
       => OutlierFlags(combinedShipments') = OutlierFlags(combinedShipments)]_vars

\* a second run has happened on a list with a flagged outlier and with an
\* unflagged record
C6_Rerun ==
  /\ pc = "delay" /\ runs = 2
  /\ \E i \in Indices(combinedShipments) : combinedShipments[i].flag_charge_outlier
  /\ \E i \in Indices(combinedShipments) : ~combinedShipments[i].flag_miscalculated

\* position of the first shipment of `list` with PIN `pin`
FirstWithPin(list, pin) ==
  CHOOSE i \in Indices(list) :
    /\ ToStr(list[i].pin) = pin
    /\ \A j \in 1..(i - 1) : ToStr(list[j].pin) # pin

\* C7: the top-PIN list is in descending order of count, has at most 10
\* entries, each with the count and the summed line_amount of the overbilled
\* shipments of its PIN, and PINs with equal counts are in the order in which
\* they first occur in the input list
C7_TopPinsByEncounter ==
  pc = "dashboard" =>
    LET top == kpis.topProblematicPins
        overbilled == SelectSeq(filteredShipments, LAMBDA s : s.is_overbilled)
    IN /\ Len(top) <= 10
       /\ \A i \in Indices(top) :
            LET members == SelectSeq(overbilled, LAMBDA s : ToStr(s.pin) = top[i].pin)
            IN /\ top[i].count = Len(members)
               /\ top[i].count > 0
               /\ top[i].totalValue = SumField(members, "line_amount")
       /\ \A i \in Indices(top) : \A j \in Indices(top) :
            i < j =>
              /\ top[i].count >= top[j].count
              /\ top[i].count = top[j].count
                   => FirstWithPin(overbilled, top[i].pin)
                        < FirstWithPin(overbilled, top[j].pin)

\* the first of the alias columns whose cell is filled, '' when none is
RECURSIVE FirstPresent(_, _)
FirstPresent(row, cols) ==
  IF cols = << >> THEN << >>
  ELSE IF Truthy(CellStr(row, Head(cols))) THEN row[Head(cols)]
  ELSE FirstPresent(row, Tail(cols))

\* C8: for every Carrier-A row that passed the upload gate, awb is the first
\* present of AWB_NO, AWB; pickup_date is parsed from the first present of
\* PICKUP_DT, PICKUP_DATE; pin is the first present of PIN CODE, PIN_CODE
C8_AliasOrder ==
  (pc = "normalized" /\ BlueDartGate(blueDartData)) =>
    \A i \in Indices(normalizedBlueDart) :
      LET rec == normalizedBlueDart[i]
          row == blueDartData[i]
      IN /\ rec.awb = FirstPresent(row, << "AWB_NO", "AWB" >>)
         /\ \E now \in Clock :
              rec.pickup_date
                = parseDate(FirstPresent(row, << "PICKUP_DT", "PICKUP_DATE" >>), now)
         /\ rec.pin = FirstPresent(row, << "PIN CODE", "PIN_CODE" >>)

\* C9: every record of either normalizer has flag_missing_actual exactly when
\* its actual_weight_kg is <= 0
C9_MissingActual ==
  pc = "normalized" =>
    \A i \in Indices(combinedShipments) :
      combinedShipments[i].flag_missing_actual
        <=> combinedShipments[i].actual_weight_kg <= 0

\* the derived fields and rule flags of a record, by the rules of the data
\* model, from its actual and charged weight, amount and value
DerivedByRules(rec) ==
  LET actual == rec.actual_weight_kg
      charged == rec.charged_weight_kg
      diff == charged - actual
  IN /\ rec.weight_diff_kg = diff
     /\ rec.weight_diff_percent
          = (IF actual <= 0 THEN Zero ELSE Frac(diff * 100, actual))
     /\ rec.per_kg_rate
          = (IF charged <= 0 THEN Zero ELSE Frac(rec.line_amount, charged))
     /\ rec.value_bucket
          = (CASE rec.product_value <= 500 -> "<=500"
               [] rec.product_value > 500 /\ rec.product_value <= 1000 -> "501-1000"
               [] rec.product_value > 1000 /\ rec.product_value <= 2000 -> "1001-2000"
               [] rec.product_value > 2000 -> ">2000")
     /\ rec.is_overbilled = (10 * diff > KG)
     /\ rec.is_underbilled = (10 * diff < -KG)
     /\ rec.flag_high_uplift = (2 * charged >= 2 * actual + KG)
     /\ rec.flag_roundup_jump = (actual < KG /\ 2 * charged >= 3 * KG)
     /\ rec.flag_value_weight_mismatch = (rec.product_value >= 1000 /\ 2 * actual < KG)

DerivedFields ==
  { "weight_diff_kg", "weight_diff_percent", "per_kg_rate", "value_bucket",
    "is_overbilled", "is_underbilled", "flag_high_uplift", "flag_roundup_jump",
    "flag_value_weight_mismatch" }
BaseFields == { "actual_weight_kg", "charged_weight_kg", "line_amount", "product_value" }

\* C10: both normalizers derive the fields and rule flags by the same rules,
\* so a Carrier-A and a Carrier-B record with equal weights, amount and value
\* have equal derived fields and rule flags
C10_SharedRules ==
  pc = "normalized" =>
    /\ \A i \in Indices(combinedShipments) : DerivedByRules(combinedShipments[i])
    /\ \A i \in Indices(normalizedBlueDart) : \A j \in Indices(normalizedDelhivery) :
         (\A f \in BaseFields : normalizedBlueDart[i][f] = normalizedDelhivery[j][f])
           => \A f \in DerivedFields : normalizedBlueDart[i][f] = normalizedDelhivery[j][f]

\* a Carrier-A and a Carrier-B record with equal weights, amount and value,
\* overbilled, the charged weight exactly 0.5 kg over the actual weight
C10_SharedRecords ==
  /\ pc = "normalized"
  /\ \E i \in Indices(normalizedBlueDart) : \E j \in Indices(normalizedDelhivery) :
       /\ \A f \in BaseFields : normalizedBlueDart[i][f] = normalizedDelhivery[j][f]
       /\ normalizedBlueDart[i].is_overbilled
       /\ normalizedDelhivery[j].flag_high_uplift
       /\ 2 * normalizedDelhivery[j].charged_weight_kg
            = 2 * normalizedDelhivery[j].actual_weight_kg + KG

\* whether the numeric cell of `row` in column `col` is missing or unparseable
NoNumber(row, col) ==
  /\ col \notin DOMAIN row
  /\ (col \in DOMAIN TextCells(row) => parseFloat(TextCells(row)[col]) = -1)

\* whether `records` has one record per row of `data`, in the order of the rows
RecordPerRow(records, data) ==
  /\ Len(records) = Len(data)
  /\ \A i \in Indices(data) : records[i].originalData = data[i]

\* C11: the normalizers return one record per input row, in input order, for
\* every list of rows, the empty list and rows with missing or unparseable
\* optional columns included; a missing or unparseable numeric field is 0, the
\* piece count 1, the Carrier-A charged weight its named default
C11_OneRecordPerRow ==
  pc = "normalized" =>
    /\ RecordPerRow(normalizedBlueDart, blueDartData)
    /\ RecordPerRow(normalizedDelhivery, delhiveryData)
    /\ combinedShipments = normalizedBlueDart \o normalizedDelhivery
    /\ \A i \in Indices(blueDartData) :
         LET row == blueDartData[i]
             rec == normalizedBlueDart[i]
         IN /\ NoNumber(row, "ACT_WT") => rec.actual_weight_kg = 0
            /\ NoNumber(row, "AMOUNT") => rec.line_amount = 0
            /\ NoNumber(row, "VALUE") => rec.product_value = 0
            /\ NoNumber(row, "PCS") => rec.pieces = 1
            /\ NoNumber(row, "CHRG_WT") =>
                 rec.charged_weight_kg
                   = (IF rec.actual_weight_kg > 0 THEN rec.actual_weight_kg ELSE KG \div 2)
    /\ \A i \in Indices(delhiveryData) :
         LET row == delhiveryData[i]
             rec == normalizedDelhivery[i]
         IN /\ NoNumber(row, "product_value")
                 => rec.product_value = 0 /\ rec.actual_weight_kg = 0
            /\ NoNumber(row, "charged_weight") => rec.charged_weight_kg = 0
            /\ NoNumber(row, "total_amount") => rec.line_amount = 0
            /\ ("item_shipped" \notin DOMAIN row \/ parseInt(row["item_shipped"]) = -1)
                 => rec.pieces = 1

\* a Carrier-A file of two different rows, one with every optional column
\* missing and one with unparseable text in its numeric columns
C11_DegenerateRows ==
  /\ pc = "normalized"
  /\ Len(blueDartData) = 2
  /\ DOMAIN blueDartData[1] = {"AWB_NO", "PICKUP_DT"}
  /\ "ACT_WT" \in DOMAIN TextCells(blueDartData[2])
  /\ NoNumber(blueDartData[2], "ACT_WT")
  /\ NoNumber(blueDartData[2], "PCS")

\* the charged weights of a Carrier-B batch as its rows give them
BatchWeights(data) == [i \in Indices(data) |-> CellNum(data[i], "charged_weight")]

\* whether the mean of the strictly positive samples lies strictly between
\* 50 and 2000 (samples are counts of 1/KG)
MeanInGrams(samples) ==
  LET positive == SelectSeq(samples, LAMBDA w : w > 0)
  IN /\ Len(positive) > 0
     /\ 50 * KG * Len(positive) < SumSeq(positive)
     /\ SumSeq(positive) < 2000 * KG * Len(positive)

ChargedMissing(row) ==
  IF "CHRG_WT" \in DOMAIN row THEN row["CHRG_WT"] = 0 ELSE NoNumber(row, "CHRG_WT")

\* C13: a Carrier-A row whose charged weight is missing or unparseable gets
\* the row's actual weight as charged_weight_kg when the actual weight is
\* > 0, and 0.5 kg otherwise
C13_ChargedDefault ==
  pc = "normalized" =>
    \A i \in Indices(blueDartData) :
      ChargedMissing(blueDartData[i]) =>
        /\ normalizedBlueDart[i].actual_weight_kg > 0
             => normalizedBlueDart[i].charged_weight_kg
                  = normalizedBlueDart[i].actual_weight_kg
        /\ normalizedBlueDart[i].actual_weight_kg <= 0
             => normalizedBlueDart[i].charged_weight_kg = KG \div 2

\* a Carrier-A file with a row without charged weight whose actual weight is
\* 1 kg, and a row without either weight
C13_BothDefaults ==
  /\ pc = "normalized"
  /\ \E i \in Indices(blueDartData) :
       /\ ChargedMissing(blueDartData[i])
       /\ normalizedBlueDart[i].actual_weight_kg = KG
       /\ normalizedBlueDart[i].charged_weight_kg = KG
  /\ \E i \in Indices(blueDartData) :
       /\ ChargedMissing(blueDartData[i])
       /\ normalizedBlueDart[i].actual_weight_kg = 0
       /\ normalizedBlueDart[i].charged_weight_kg = KG \div 2

\* C14: detectWeightUnit returns grams exactly when at least one sample is
\* strictly positive and the mean m of the strictly positive samples has
\* 50 < m < 2000, and kilograms in every other case
C14_GramsIffMeanBetween ==
  pc = "normalized" =>
    /\ detectWeightUnit(BatchWeights(delhiveryData)) \in {"g", "kg"}
    /\ detectWeightUnit(BatchWeights(delhiveryData)) = "g"
         <=> MeanInGrams(BatchWeights(delhiveryData))
    /\ detectWeightUnit(SelectSeq(BatchWeights(delhiveryData), LAMBDA w : w > 0))
         = detectWeightUnit(BatchWeights(delhiveryData))

\* the samples 100, 150, 200 give grams
C14_HundredsAreGrams ==
  /\ pc = "normalized"
  /\ BatchWeights(delhiveryData) = << 100 * KG, 150 * KG, 200 * KG >>
  /\ detectWeightUnit(BatchWeights(delhiveryData)) = "g"
  /\ \A i \in 1..3 : normalizedDelhivery[i].charged_weight_kg * 1000
                       = BatchWeights(delhiveryData)[i]

\* the pickup-date text parseDate is given for record i of each normalizer
BlueDartDateText(row) == ToStr(Or(CellStr(row, "PICKUP_DT"), << >>))
DelhiveryDateText(row) == CellStr(row, "pickup_date")

\* whether a text is of none of the formats: no ISO date, no date of three
\* dash-separated parts with a time after a space, no DD-MMM-YY with a month
\* of the table, no ISO date-time
Unrecognized(text) ==
  \/ text = UNDEF
  \/ /\ ~MatchesIsoDate(text)
     /\ ~(Includes(text, " ") /\ Len(Split(text, "-")) = 3)
     /\ ~(Len(Split(text, "-")) = 3 /\ Trim(Split(text, "-")[2]) \in MonthTexts)
     /\ ~(Len(text) > 10 /\ MatchesIsoDate(SubSeq(text, 1, 10)) /\ text[11] = "T")

\* whether parseDate's result for `text` is a valid timestamp, and the
\* current one when the text is empty, blank or of no recognized format
ValidOrNow(text, result) ==
  /\ result.kind \in {"utc", "local", "now"}
  /\ result.m \in 1..12 /\ result.d \in 1..DaysIn(result.y, result.m)
  /\ Unrecognized(text) => \E now \in Clock : result = NowAt(now)

\* C15: parseDate returns a valid timestamp for every input string, the
\* empty string, blank strings and strings of no recognized format included,
\* and in the empty and unrecognized cases the current timestamp
C15_AlwaysValid ==
  pc = "normalized" =>
    /\ \A i \in Indices(blueDartData) :
         ValidOrNow(BlueDartDateText(blueDartData[i]), normalizedBlueDart[i].pickup_date)
    /\ \A i \in Indices(delhiveryData) :
         ValidOrNow(DelhiveryDateText(delhiveryData[i]), normalizedDelhivery[i].pickup_date)

\* a text of no recognized format has been parsed to the current timestamp
C15_UnrecognizedText ==
  /\ pc = "normalized"
  /\ Len(blueDartData) = 1
  /\ BlueDartDateText(blueDartData[1]) = << "0","7","/","0","7","/","2","0","2","5" >>
  /\ normalizedBlueDart[1].pickup_date.kind = "now"

\* the fixed English month table: the number of a 3-letter abbreviation
MonthNumber(name) ==
  CASE name = << "J","a","n" >> -> 1 [] name = << "F","e","b" >> -> 2
    [] name = << "M","a","r" >> -> 3 [] name = << "A","p","r" >> -> 4
    [] name = << "M","a","y" >> -> 5 [] name = << "J","u","n" >> -> 6
    [] name = << "J","u","l" >> -> 7 [] name = << "A","u","g" >> -> 8
    [] name = << "S","e","p" >> -> 9 [] name = << "O","c","t" >> -> 10
    [] name = << "N","o","v" >> -> 11 [] name = << "D","e","c" >> -> 12

\* what the claim gives for a DD-MMM-YY text: midnight UTC of day DD of the
\* month in year 20YY
DayMonthYear(text) ==
  LET parts == Split(text, "-")
  IN [kind |-> "utc", y |-> 2000 + NumVal(parts[3]), m |-> MonthNumber(parts[2]),
      d |-> NumVal(parts[1])]

\* C16: the formats are tried in the order ISO date, DD-MM-YYYY HH:MM, then
\* DD-MMM-YY; a DD-MMM-YY text with a month of the table and a day the month
\* has gives midnight UTC of that day in year 20YY, an ISO date gives its own
\* midnight UTC, and DD-MM-YYYY HH:MM gives midnight UTC of its date
C16_DayMonthYear ==
  pc = "normalized" =>
    /\ \A i \in Indices(blueDartData) :
         LET text == BlueDartDateText(blueDartData[i])
             result == normalizedBlueDart[i].pickup_date
         IN /\ (/\ text \in DayMonthYearTexts
                /\ DayMonthYear(text).d <= DaysIn(DayMonthYear(text).y, DayMonthYear(text).m))
                 => result = DayMonthYear(text)
            /\ text = d_Iso => result = [kind |-> "utc", y |-> 2025, m |-> 3, d |-> 9]
            /\ text = d_Delhivery => result = [kind |-> "utc", y |-> 2025, m |-> 7, d |-> 28]
    /\ \A i \in Indices(delhiveryData) :
         LET text == DelhiveryDateText(delhiveryData[i])
             result == normalizedDelhivery[i].pickup_date
         IN /\ text = d_Iso => result = [kind |-> "utc", y |-> 2025, m |-> 3, d |-> 9]
            /\ text = d_Delhivery => result = [kind |-> "utc", y |-> 2025, m |-> 7, d |-> 28]

\* 07-Jul-25 has been parsed to 2025-07-07T00:00:00Z
C16_SeventhOfJuly ==
  /\ pc = "normalized"
  /\ Len(blueDartData) = 1
  /\ BlueDartDateText(blueDartData[1]) = d_Jul07
  /\ normalizedBlueDart[1].pickup_date = [kind |-> "utc", y |-> 2025, m |-> 7, d |-> 7]

\* C17: every record of either normalizer has a pickup_date at midnight UTC,
\* whatever the raw pickup date: empty, unparseable or an ISO date-time
C17_PickupAtUtcMidnight ==
  pc = "normalized" =>
    \A i \in Indices(combinedShipments) : combinedShipments[i].pickup_date.kind = "utc"

\* the shipments of `list` whose carrier, or zone as an object key, is `k`
WithKey(list, field, k) == SelectSeq(list, LAMBDA s : KeyOf(s, field) = k)
\* the keys of that field present in the list
KeysPresent(list, field) == {KeyOf(list[i], field) : i \in Indices(list)}
\* the mean of a field over a list, 0 over the empty list
MeanField(list, f) == IF Len(list) = 0 THEN Zero ELSE Frac(SumField(list, f), Len(list))
\* the overbilling rates by a field the claim gives for a list
RatesByKey(list, field) ==
  [k \in KeysPresent(list, field) |->
     Frac(100 * Len(SelectSeq(WithKey(list, field, k), LAMBDA s : s.is_overbilled)),
          Len(WithKey(list, field, k)))]

\* C18: for a non-empty list calculateKPIs returns the list's length, the sum
\* of line_amount, the count and line_amount sum of the overbilled shipments,
\* the mean actual and charged weight over the shipments with both weights
\* > 0 (0 when there is none), and for each carrier and each zone present
\* the rate 100 * overbilled / total of that key, with no other entries
C18_KpiSummary ==
  (pc = "dashboard" /\ Len(filteredShipments) > 0) =>
    LET overbilled == SelectSeq(filteredShipments, LAMBDA s : s.is_overbilled)
        weighed == SelectSeq(filteredShipments,
                             LAMBDA s : s.actual_weight_kg > 0 /\ s.charged_weight_kg > 0)
    IN /\ kpis.totalShipments = Len(filteredShipments)
       /\ kpis.totalAmount = SumField(filteredShipments, "line_amount")
       /\ kpis.suspectedOverbillingCount = Len(overbilled)
       /\ kpis.suspectedOverbillingValue = SumField(overbilled, "line_amount")
       /\ kpis.avgActualWeight = MeanField(weighed, "actual_weight_kg")
       /\ kpis.avgChargedWeight = MeanField(weighed, "charged_weight_kg")
       /\ kpis.overbillingRateByCarrier = RatesByKey(filteredShipments, "carrier")
       /\ kpis.overbillingRateByZone = RatesByKey(filteredShipments, "zone")


\* C19: calculateKPIs on the empty list returns a summary whose counts,
\* amounts and means are all 0, whose two overbilling-rate maps are empty
\* and whose problematic-PIN list is empty; the Dashboard's summary is that
\* one whenever its filtered list is empty
C19_EmptySummary ==
  Len(filteredShipments) = 0 =>
    /\ kpis.totalShipments = 0
    /\ kpis.totalAmount = 0
    /\ kpis.suspectedOverbillingCount = 0
    /\ kpis.suspectedOverbillingValue = 0
    /\ kpis.avgActualWeight = [n |-> 0, d |-> 1]
    /\ kpis.avgChargedWeight = [n |-> 0, d |-> 1]
    /\ DOMAIN kpis.overbillingRateByCarrier = {}
    /\ DOMAIN kpis.overbillingRateByZone = {}
    /\ kpis.topProblematicPins = << >>
    /\ DOMAIN kpis = { "totalShipments", "totalAmount", "suspectedOverbillingCount",
                       "suspectedOverbillingValue", "avgActualWeight", "avgChargedWeight",
                       "overbillingRateByCarrier", "overbillingRateByZone",
                       "topProblematicPins" }
\* a Dashboard whose filters leave none of the uploaded shipments
C19_NothingInRange ==
  pc = "dashboard" /\ Len(shipments) > 0 /\ Len(filteredShipments) = 0


\* a step of the run that calls calculateOutliers: the first call of the run,
\* made once both normalizers have returned one record per uploaded row
OutlierCallStep ==
  /\ pc = "normalized" /\ pc' = "delay"
  /\ runs = 0 /\ runs' = 1
  /\ Len(normalizedBlueDart) = Len(blueDartData)
  /\ Len(normalizedDelhivery) = Len(delhiveryData)
  /\ combinedShipments = normalizedBlueDart \o normalizedDelhivery
\* C20: in one run of handleDataLoaded calculateOutliers is called exactly
\* once, after both normalizers have completed, on the concatenation of both
\* carriers' records, and the list the Dashboard is given is only ever the
\* list that call returned: the call counter moves only from 0 to 1 in that
\* step or back to 0 when a new run starts, the shipments state changes only
\* to that call's result or to the empty list, the run ends only after one
\* call, and the Dashboard's filtered list is computed from that state
C20_OutliersOnceBeforeDashboard ==
  [][ /\ runs' # runs => (OutlierCallStep \/ (pc = "idle" /\ pc' = "validated" /\ runs' = 0))
      /\ shipments' # shipments =>
           \/ shipments' = << >>
           \/ /\ OutlierCallStep
              /\ shipments' = calculateOutliers(normalizedBlueDart \o normalizedDelhivery)
      /\ (pc = "delay" /\ pc' = "idle") => runs = 1
      /\ pc' = "dashboard" =>
           /\ Len(shipments') > 0
           /\ filteredShipments' = applyFilters(shipments', filters)
    ]_vars
\* a Dashboard showing shipments of both carriers after the run's one call,
\* one of them flagged as a charge outlier by that call
C20_BothCarriersFlagged ==
  /\ pc = "dashboard" /\ runs = 1
  /\ \E i \in 1..Len(shipments) : shipments[i].carrier = "BlueDart"
  /\ \E i \in 1..Len(shipments) : shipments[i].carrier = "Delhivery"
  /\ \E i \in 1..Len(shipments) : shipments[i].flag_charge_outlier


\* the two fields calculateOutliers may write
OutlierFields == {"flag_charge_outlier", "flag_miscalculated"}
\* C21: calculateOutliers changes nothing except flag_charge_outlier and
\* flag_miscalculated: the list it returns is the list it was given, with as
\* many records in the same order, and every other field of every record,
\* the attached raw row included, is as the normalizers left it
C21_OnlyTwoFlagsChange ==
  [][ (pc = "normalized" /\ pc' = "delay") =>
        /\ combinedShipments' = shipments'
        /\ Len(shipments') = Len(combinedShipments)
        /\ \A i \in 1..Len(combinedShipments) :
             /\ DOMAIN shipments'[i] = DOMAIN combinedShipments[i]
             /\ \A f \in DOMAIN combinedShipments[i] \ OutlierFields :
                  shipments'[i][f] = combinedShipments[i][f]
    ]_vars
\* the call has flagged a record that is not overbilled, next to one it left
\* unflagged
C21_FlagsWritten ==
  /\ pc = "delay" /\ runs = 1
  /\ \E i \in 1..Len(shipments) :
       /\ shipments[i].flag_charge_outlier /\ shipments[i].flag_miscalculated
       /\ ~shipments[i].is_overbilled
  /\ \E i \in 1..Len(shipments) : ~shipments[i].flag_charge_outlier


\* the number of fields a CSV reader finds in a line: one more than its
\* commas outside double quotes
FieldCount(line) ==
  LET quotes == {j \in 1..Len(line) : line[j] = "\""}
      outside(i) == Cardinality({j \in quotes : j < i}) % 2 = 0
  IN 1 + Cardinality({i \in 1..Len(line) : line[i] = "," /\ outside(i)})

\* C22: the CSV export has exactly 21 columns: the header row has 21 fields
\* and every data row has as many fields as the header row (the columns
\* being, in order, the ones the output contract lists)
C22_TwentyOneColumns ==
  exported # NoExport =>
    /\ FieldCount(exported[1]) = 21
    /\ \A i \in 1..Len(exported) : FieldCount(exported[i]) = FieldCount(exported[1])


\* the list an export of the given type writes
ExportedList(type) ==
  IF type = "all" THEN filteredShipments ELSE flaggedShipments(filteredShipments)
\* the fields of a shipment other than the attached raw row
ShipmentFields(s) == DOMAIN s \ {"originalData"}
\* C23: exporting shipments in exportToCSV's row layout and re-parsing the
\* CSV preserves every field and flag of every shipment exactly; a reader
\* has only the line to go by, so two exported shipments with the same line
\* are equal in every field and flag
C23_RoundTrip ==
  (pc = "dashboard" /\ exported # NoExport) =>
    \A type \in {"all", "flagged"} : \A west \in BOOLEAN :
      exported = exportToCSV(ExportedList(type), west) =>
        \A i, j \in 1..Len(ExportedList(type)) :
          exported[i + 1] = exported[j + 1] =>
            \A f \in ShipmentFields(ExportedList(type)[i]) :
              ExportedList(type)[i][f] = ExportedList(type)[j][f]


\* C24: when a step of handleDataLoaded throws, the step whose status was
\* 'processing' at that moment ends with status 'error' and the error
\* message as its details, and loading is reset to false without the
\* Dashboard being shown
C24_FailedStepMarked ==
  [][ (pc = "catch" /\ pc' = "idle") =>
        /\ FindProcessing(processingSteps) # 0
        /\ processingSteps'[FindProcessing(processingSteps)].status = "error"
        /\ processingSteps'[FindProcessing(processingSteps)].details = Details(0, thrown)
        /\ loading' = FALSE
        /\ ~DashboardShown'
    ]_vars


\* the members of the group calculateOutliers puts shipment i of the list in
KeyGroup(list, i) == {j \in 1..Len(list) : GroupKey(list[j]) = GroupKey(list[i])}
\* how many members of that group have a positive rate
PositiveCount(list, i) ==
  Cardinality({j \in KeyGroup(list, i) : FracPos(list[j].per_kg_rate)})
\* C25: in a group with between 5 and 19 members of strictly positive
\* per_kg_rate, calculateOutliers flags no member with a positive rate:
\* flag_charge_outlier is true exactly for the members whose rate is not
\* positive
C25_SmallSampleFlagsOnlyNonPositive ==
  (pc = "delay" /\ runs = 1) =>
    \A i \in 1..Len(combinedShipments) :
      PositiveCount(combinedShipments, i) \in 5..19 =>
        combinedShipments[i].flag_charge_outlier
          = ~FracPos(combinedShipments[i].per_kg_rate)
\* a group of 5 to 19 positive rates, not all equal, with a member whose rate
\* is 0: that member is flagged and the lowest and highest rates are not
C25_MixedGroup ==
  /\ pc = "delay" /\ runs = 1
  /\ \E i, j, k \in 1..Len(combinedShipments) :
       /\ {j, k} \subseteq KeyGroup(combinedShipments, i)
       /\ PositiveCount(combinedShipments, i) \in 5..19
       /\ ~FracPos(combinedShipments[i].per_kg_rate)
       /\ combinedShipments[i].flag_charge_outlier
       /\ FracPos(combinedShipments[j].per_kg_rate)
       /\ FracLT(combinedShipments[j].per_kg_rate, combinedShipments[k].per_kg_rate)
       /\ ~combinedShipments[j].flag_charge_outlier
       /\ ~combinedShipments[k].flag_charge_outlier


\* the two flags calculateOutliers gives record i of a list
OutlierFlagsOf(list, i) ==
  << list[i].flag_charge_outlier, list[i].flag_miscalculated >>
\* C26: after calculateOutliers the flag_charge_outlier and
\* flag_miscalculated of every record of one carrier are what they are when
\* that carrier's records are processed without the other carrier's, whatever
\* the zones and services: records of different carriers never share a group
C26_CarriersDoNotInterfere ==
  [][ (pc = "normalized" /\ pc' = "delay") =>
        /\ \A i \in 1..Len(normalizedBlueDart) :
             OutlierFlagsOf(normalizedBlueDart', i)
               = OutlierFlagsOf(calculateOutliers(normalizedBlueDart), i)
        /\ \A i \in 1..Len(normalizedDelhivery) :
             OutlierFlagsOf(normalizedDelhivery', i)
               = OutlierFlagsOf(calculateOutliers(normalizedDelhivery), i)
        /\ \A i, j \in 1..Len(combinedShipments) :
             combinedShipments[i].carrier # combinedShipments[j].carrier
               => GroupKey(combinedShipments[i]) # GroupKey(combinedShipments[j])
    ]_vars
\* records of both carriers with one zone and one service: four Carrier-A
\* rates are positive, so the Carrier-A record with rate 0 stays unflagged
\* although the Carrier-B record has a fifth positive rate
C26_SameZoneAndService ==
  /\ pc = "delay" /\ runs = 1
  /\ \E i \in 1..Len(normalizedBlueDart) : \E j \in 1..Len(normalizedDelhivery) :
       /\ normalizedBlueDart[i].zone = normalizedDelhivery[j].zone
       /\ normalizedBlueDart[i].service = normalizedDelhivery[j].service
       /\ FracPos(normalizedDelhivery[j].per_kg_rate)
       /\ PositiveCount(normalizedBlueDart, i) = 4
       /\ ~FracPos(normalizedBlueDart[i].per_kg_rate)
       /\ ~normalizedBlueDart[i].flag_charge_outlier


\* C27: every record either normalizer produces has flag_roundup_jump only
\* with flag_high_uplift, flag_high_uplift only with is_overbilled, and never
\* both is_overbilled and is_underbilled
C27_FlagImplications ==
  pc = "normalized" =>
    \A i \in 1..Len(combinedShipments) :
      LET s == combinedShipments[i]
      IN /\ s.flag_roundup_jump => s.flag_high_uplift
         /\ s.flag_high_uplift => s.is_overbilled
         /\ ~(s.is_overbilled /\ s.is_underbilled)
\* a normalized record with a roundup jump, and so with a high uplift and
\* overbilled and not underbilled
C27_RoundupJumpRecord ==
  /\ pc = "normalized"
  /\ \E i \in 1..Len(combinedShipments) :
       /\ combinedShipments[i].flag_roundup_jump
       /\ combinedShipments[i].flag_high_uplift
       /\ combinedShipments[i].is_overbilled
       /\ ~combinedShipments[i].is_underbilled


\* C28: every Carrier-B record has flag_value_weight_mismatch = false and
\* actual_weight_kg >= 0, whatever its product_value: the actual weight is
\* product_value at a fixed ratio, at least 1.25 kg from a value of 1000 on
C28_NoMismatchForCarrierB ==
  pc = "normalized" =>
    \A i \in 1..Len(normalizedDelhivery) :
      /\ ~normalizedDelhivery[i].flag_value_weight_mismatch
      /\ normalizedDelhivery[i].actual_weight_kg >= 0
      /\ normalizedDelhivery[i].product_value >= 1000
           => 4 * normalizedDelhivery[i].actual_weight_kg >= 5 * KG
\* a Carrier-B record with a product value of exactly 1000 and so an actual
\* weight of 1.25 kg
C28_ValueAtThreshold ==
  /\ pc = "normalized"
  /\ \E i \in 1..Len(normalizedDelhivery) :
       /\ normalizedDelhivery[i].product_value = 1000
       /\ normalizedDelhivery[i].actual_weight_kg = (5 * KG) \div 4
       /\ ~normalizedDelhivery[i].flag_value_weight_mismatch


\* the parses of one carrier's file that are in flight
InFlight(type) == {k \in 1..Len(parsing) : parsing[k].type = type}
\* the rows FileUpload holds for a carrier and the file last selected for it
StoredRows(type) ==
  IF type = "blueDart" THEN uploadedBlueDartData ELSE uploadedDelhiveryData
LastSelected(type) == IF type = "blueDart" THEN blueDartFile ELSE delhiveryFile
\* C29: in FileUpload, under every interleaving of file selections and
\* parse completions, a carrier's file input is disabled for as long as a
\* parse of that carrier's file is in flight, so at most one parse per
\* carrier is in flight, and once none is, the rows stored for a carrier are
\* those of the file selected last for it (when that file was accepted)
C29_OneParsePerCarrier ==
  uploading # "processing" =>
    \A type \in {"blueDart", "delhivery"} :
      /\ InFlight(type) # {} => InputDisabled(type)
      /\ Cardinality(InFlight(type)) <= 1
      /\ (InFlight(type) = {} /\ LastSelected(type) # NoFile
            /\ UploadError(type, LastSelected(type)) = "")
           => StoredRows(type) = LastSelected(type).rows


\* a run whose progress screen was cancelled and whose delay has not ended
CancelledRun == pc = "delay" /\ processingSteps = << >>
\* C30: a run cancelled with handleReset while it is loading (the only point
\* at which the handler has yielded is its final delay) never gets its
\* Dashboard displayed; the Dashboard appears only when the delay of a run
\* that was not cancelled ends, loading is then false, and shipments changes
\* only to the non-empty list calculateOutliers returned for the run or to
\* the empty list of a reset
C30_CancelledRunNeverShown ==
  [][ /\ CancelledRun => ~DashboardShown'
      /\ (DashboardShown' /\ ~DashboardShown) =>
           /\ pc = "delay" /\ ~CancelledRun
           /\ ~loading'
           /\ shipments' = shipments /\ Len(shipments) > 0
      /\ shipments' # shipments =>
           \/ pc = "normalized" /\ shipments' = calculateOutliers(combinedShipments)
           \/ shipments' = << >> ]_vars
\* a run was cancelled during its delay and the delay has ended: the upload
\* screen is displayed although showDashboard is true
C30_CancelledRunEnded ==
  /\ pc = "idle" /\ ~loading /\ showDashboard
  /\ shipments = << >> /\ processingSteps = << >>

=============================================================================
